---- MODULE Spec2Model ----
(***************************************************************************)
(* A model of nano-git (timokoessler/nano-git): the loose object store,    *)
(* the pack index and pack file readers, and the content-addressing        *)
(* pipeline (hashObject / writeObject / getObject).                        *)
(*                                                                         *)
(* Representation.  A Buffer is a sequence of bytes (0..255).  A JS string *)
(* is a sequence of code points.  An object id is the 40-character hex     *)
(* string of a 20-byte digest, held as a sequence of 40 hex digit values   *)
(* (0..15); the order of the digit values is the order of the characters   *)
(* '0'..'9','a'..'f', so comparing two ids digit by digit is the string    *)
(* comparison the code performs.                                           *)
(***************************************************************************)
EXTENDS Integers, Sequences, FiniteSets, TLC

VARIABLES
    dirs,     \* the shard directories objects/<xx>/ that exist (first byte of the id)
    files,    \* loose object files: path |-> the bytes of the file
    packs,    \* objects/pack: pack sha |-> [idx |-> index file, pack |-> pack file]
    args,     \* the arguments of the call sequence under study
    res,      \* the results of the operations performed so far
    hist,     \* the writeObject calls that returned: a set of <<arguments, id>>
    pc,       \* the position of the caller
    bs        \* the local variables of findObjectInPackIndex while it runs

vars == <<dirs, files, packs, args, res, hist, pc, bs>>

-----------------------------------------------------------------------------
(* Bounds of the model *)

\* the longest content handed to hashObject / writeObject
MaxLen == 2

\* the number of store operations in one behaviour of the store
MaxOps == 2

-----------------------------------------------------------------------------
(* Sequences, buffers and strings *)

\* buf.subarray(from, to) and str.slice(from, to), 0-based, end exclusive, clamped
Slice(s, from, to) ==
    SubSeq(s, (IF from > 0 THEN from ELSE 0) + 1, IF to < Len(s) THEN to ELSE Len(s))

\* buf.indexOf(value, fromIndex): the 0-based position of the first occurrence, or -1
IndexOf(s, v, from) ==
    LET hits == {i \in (IF from > 0 THEN from ELSE 0)..(Len(s) - 1) : s[i + 1] = v}
    IN  IF hits = {} THEN -1 ELSE CHOOSE i \in hits : \A j \in hits : i <= j

\* the code points of the four object type names
TypeName(type) ==
    CASE type = "commit" -> <<99, 111, 109, 109, 105, 116>>
      [] type = "tree"   -> <<116, 114, 101, 101>>
      [] type = "blob"   -> <<98, 108, 111, 98>>
      [] type = "tag"    -> <<116, 97, 103>>

gitObjectTypes == {"commit", "tree", "blob", "tag"}

\* `${n}`: the decimal digits of a non-negative number
RECURSIVE Decimal(_)
Decimal(n) == IF n < 10 THEN <<48 + n>> ELSE Decimal(n \div 10) \o <<48 + (n % 10)>>

\* buf.toString('utf8'): bytes below 128 are themselves; the encoding of U+FFFD decodes
\* to U+FFFD; every other byte from 128 up is, in the model's alphabet, a byte that
\* belongs to no UTF-8 sequence and decodes to U+FFFD on its own.
\* (A long buffer is decoded in two parts, cut where no encoded U+FFFD is cut.)
RECURSIVE BufferToString(_)
BufferToString(buf) ==
    IF buf = <<>> THEN <<>>
    ELSE IF Len(buf) <= 3
    THEN IF buf[1] < 128 THEN <<buf[1]>> \o BufferToString(Tail(buf))
         ELSE IF Len(buf) = 3 /\ buf[1] = 239 /\ buf[2] = 191 /\ buf[3] = 189 THEN <<65533>>
         ELSE <<65533>> \o BufferToString(Tail(buf))
    ELSE LET m        == Len(buf) \div 2
             start(i) == i >= 1 /\ i + 2 <= Len(buf)
                            /\ buf[i] = 239 /\ buf[i + 1] = 191 /\ buf[i + 2] = 189
             cut      == CHOOSE c \in {m - 1, m, m + 1} : ~start(c) /\ ~start(c - 1)
         IN  BufferToString(SubSeq(buf, 1, cut)) \o BufferToString(SubSeq(buf, cut + 1, Len(buf)))

\* Buffer.from(str): the UTF-8 encoding of a string of ASCII and U+FFFD code points
RECURSIVE BufferFrom(_)
BufferFrom(str) ==
    IF str = <<>> THEN <<>>
    ELSE IF Len(str) = 1 THEN (IF str[1] < 128 THEN <<str[1]>> ELSE <<239, 191, 189>>)
    ELSE BufferFrom(SubSeq(str, 1, Len(str) \div 2))
            \o BufferFrom(SubSeq(str, Len(str) \div 2 + 1, Len(str)))

\* Buffer.byteLength(str): the number of bytes of the UTF-8 encoding
ByteLength(str) == Len(str) + 2 * Cardinality({i \in 1..Len(str) : str[i] >= 128})

-----------------------------------------------------------------------------
(* zlib and SHA-1 (library code) *)

\* the check value that ends a zlib stream
RECURSIVE AdlerRange(_, _, _, _)
AdlerRange(data, lo, hi, acc) ==
    IF lo > hi THEN acc
    ELSE IF lo = hi THEN (acc * 3 + data[lo]) % 251
    ELSE LET upper == AdlerRange(data, (lo + hi) \div 2 + 1, hi, acc)
         IN  IF upper >= 0 THEN AdlerRange(data, lo, (lo + hi) \div 2, upper) ELSE 0

Adler(data) == AdlerRange(data, 1, Len(data), 1)

\* zlib.deflate: header byte, a stored block that carries its own length, check value
Deflate(data) == <<120, Len(data)>> \o data \o <<Adler(data)>>

\* zlib.inflate: reads one stream from the start of the input and ignores what follows
\* it; fails on a bad header, a truncated stream or a wrong check value
Inflate(z) ==
    IF Len(z) >= 3 /\ z[1] = 120 /\ Len(z) >= z[2] + 3
          /\ z[z[2] + 3] = Adler(SubSeq(z, 3, z[2] + 2))
    THEN [st |-> "ok", data |-> SubSeq(z, 3, z[2] + 2)]
    ELSE [st |-> "error", error |-> "Z_DATA_ERROR"]

sha1Length == 20

\* one running sum over the bytes at lo..hi, first byte first
RECURSIVE Roll(_, _, _, _, _, _)
Roll(bytes, lo, hi, acc, mul, mod) ==
    IF lo > hi THEN acc
    ELSE IF lo = hi THEN (acc * mul + bytes[lo] + 1) % mod
    ELSE LET lower == Roll(bytes, lo, (lo + hi) \div 2, acc, mul, mod)
         IN  IF lower >= 0 THEN Roll(bytes, (lo + hi) \div 2 + 1, hi, lower, mul, mod) ELSE 0

\* the 20 bytes of a digest: a fixed function of the bytes fed to the hash, free of
\* collisions on the inputs of the model
DigestBytes(bytes) ==
    LET h1 == Roll(bytes, 1, Len(bytes), 1, 31, 65521)
        h2 == Roll(bytes, 1, Len(bytes), 7, 131, 65519)
        h3 == Roll(bytes, 1, Len(bytes), 3, 257, 65497)
    IN  [i \in 1..sha1Length |->
            CASE i = 1 -> h1 \div 256
              [] i = 2 -> h1 % 256
              [] i = 3 -> h2 \div 256
              [] i = 4 -> h2 % 256
              [] i = 5 -> h3 \div 256
              [] i = 6 -> h3 % 256
              [] OTHER -> (h1 + i * h2 + i * i * h3) % 256]

\* buf.toString('hex') and digest('hex'): two hex digits for each byte
Hex(bytes) ==
    [i \in 1..(2 * Len(bytes)) |->
        IF i % 2 = 1 THEN bytes[(i + 1) \div 2] \div 16 ELSE bytes[i \div 2] % 16]

\* createHash('sha1').update(...).digest('hex')
Sha1Hex(bytes) == Hex(DigestBytes(bytes))

-----------------------------------------------------------------------------
(* object.ts: the content-addressing pipeline *)

\* isBinary(fileName, content) of istextorbinary: a known extension decides; otherwise
\* the content is binary when its UTF-8 reading has U+FFFD or a control character <= 8
isBinary(fileName, content) ==
    IF fileName = "a.txt" THEN FALSE
    ELSE IF fileName = "a.png" THEN TRUE
    ELSE \E i \in 1..Len(BufferToString(content)) :
            BufferToString(content)[i] = 65533 \/ BufferToString(content)[i] <= 8

\* content.replace(/\r\n/g, '\n')
RECURSIVE ReplaceCRLF(_)
ReplaceCRLF(str) ==
    IF str = <<>> THEN <<>>
    ELSE IF Len(str) >= 2 /\ str[1] = 13 /\ str[2] = 10
         THEN <<10>> \o ReplaceCRLF(SubSeq(str, 3, Len(str)))
    ELSE <<str[1]>> \o ReplaceCRLF(Tail(str))

\* content.replace(/\r/g, '\n')
ReplaceCR(str) == [i \in 1..Len(str) |-> IF str[i] = 13 THEN 10 ELSE str[i]]

fixLineEndings(content) == ReplaceCR(ReplaceCRLF(content))

\* preProcessObject with the length of the caller's Buffer in place of the length of
\* the filtered string
preProcessObjectInputLength(content, autocrlf, fileName, filters) ==
    IF (filters /\ ~isBinary(fileName, content) /\ autocrlf = "true") \/ autocrlf = "input"
    THEN [isString |-> TRUE, content |-> fixLineEndings(BufferToString(content)),
          length |-> Len(content)]
    ELSE [isString |-> FALSE, content |-> content, length |-> Len(content)]

\* preProcessObject: [isString, content, length]; content is a string when it was
\* filtered and the caller's Buffer otherwise
preProcessObject(content, autocrlf, fileName, filters) ==
    IF (filters /\ ~isBinary(fileName, content) /\ autocrlf = "true") \/ autocrlf = "input"
    THEN LET hashContent == fixLineEndings(BufferToString(content))
         IN  [isString |-> TRUE, content |-> hashContent, length |-> ByteLength(hashContent)]
    ELSE [isString |-> FALSE, content |-> content, length |-> Len(content)]

\* hash.update(data): a string is fed as its UTF-8 encoding, a Buffer as it is
UpdateBytes(p) == IF p.isString THEN BufferFrom(p.content) ELSE p.content

\* `${hashContent}`: a Buffer inside a template string is decoded as UTF-8
TemplateString(p) == IF p.isString THEN p.content ELSE BufferToString(p.content)

\* `${type} ${length}\x00`
HeaderString(type, length) == TypeName(type) \o <<32>> \o Decimal(length) \o <<0>>

hashObject(type, content, autocrlf, fileName, filters) ==
    LET p == preProcessObject(content, autocrlf, fileName, filters)
    IN  Sha1Hex(BufferFrom(HeaderString(type, p.length)) \o UpdateBytes(p))

\* `${repoPath}/objects/${sha.slice(0, 2)}`: a path is [dir, name]; the path of a shard
\* directory has no name part
objectDir(sha) == [dir |-> Slice(sha, 0, 2), name |-> <<>>]

\* `${objectDir}/${sha.slice(2)}`
objectPath(sha) == [dir |-> Slice(sha, 0, 2), name |-> Slice(sha, 2, Len(sha))]

\* checkDirectoryExists is async: the call returns a promise of the answer, which is
\* whether the path names a directory
checkDirectoryExists(ds, path) ==
    [kind |-> "promise", value |-> (path.name = <<>> /\ path.dir \in ds)]

\* the truth value JavaScript gives a value in a condition: every object, a promise
\* included, is true
Truthy(v) == IF v.kind = "boolean" THEN v.value ELSE TRUE

\* writeObject with writeFile in append mode: an existing object file grows
writeObjectAppend(ds, fs, type, content, autocrlf, fileName, filters) ==
    LET p       == preProcessObject(content, autocrlf, fileName, filters)
        sha     == Sha1Hex(BufferFrom(HeaderString(type, p.length)) \o UpdateBytes(p))
        dir     == objectDir(sha)
        path    == objectPath(sha)
        ds2     == IF ~Truthy(checkDirectoryExists(ds, path)) THEN ds \cup {dir.dir} ELSE ds
        data    == BufferFrom(HeaderString(type, p.length) \o TemplateString(p))
    IN  IF dir.dir \in ds2
        THEN [st |-> "ok", sha |-> sha, dirs |-> ds2,
              files |-> [q \in DOMAIN fs \cup {path} |->
                           IF q # path THEN fs[q]
                           ELSE IF path \in DOMAIN fs THEN fs[path] \o Deflate(data)
                           ELSE Deflate(data)]]
        ELSE [st |-> "error", error |-> "ENOENT", sha |-> sha, dirs |-> ds2, files |-> fs]

\* writeObject: [st, sha, dirs, files]: the value returned or the error thrown, and the
\* file system after the call
writeObject(ds, fs, type, content, autocrlf, fileName, filters) ==
    LET p       == preProcessObject(content, autocrlf, fileName, filters)
        sha     == Sha1Hex(BufferFrom(HeaderString(type, p.length)) \o UpdateBytes(p))
        dir     == objectDir(sha)
        path    == objectPath(sha)
        ds2     == IF ~Truthy(checkDirectoryExists(ds, path)) THEN ds \cup {dir.dir} ELSE ds
        data    == BufferFrom(HeaderString(type, p.length) \o TemplateString(p))
    IN  IF dir.dir \in ds2
        THEN [st |-> "ok", sha |-> sha, dirs |-> ds2,
              files |-> [q \in DOMAIN fs \cup {path} |-> IF q = path THEN Deflate(data) ELSE fs[q]]]
        ELSE [st |-> "error", error |-> "ENOENT", sha |-> sha, dirs |-> ds2, files |-> fs]

-----------------------------------------------------------------------------
(* pack.ts: the pack index and the pack file *)

\* `a < b` on two strings of hex digits: the first differing digit decides, a proper
\* prefix is smaller
StrLess(a, b) ==
    LET n == IF Len(a) < Len(b) THEN Len(a) ELSE Len(b)
        d == {i \in 1..n : a[i] # b[i]}
    IN  IF d = {} THEN Len(a) < Len(b)
        ELSE a[CHOOSE i \in d : \A j \in d : i <= j] < b[CHOOSE i \in d : \A j \in d : i <= j]

\* parseInt(sha.substring(0, 2), 16)
prefixNumber(sha) == sha[1] * 16 + sha[2]

\* the byte offset at which the table of object ids starts: 4 bytes of magic, 4 bytes of
\* version, 256 fan-out entries of 4 bytes
oidTableOffset == 8 + 256 * 4

\* buf.subarray(mid, mid + sha1Length).toString('hex') on an index file: the id in the
\* slot that starts at byte `at`; bytes outside the id table belong to other tables
ReadSha(idx, at) ==
    LET k == (at - oidTableOffset) \div sha1Length
    IN  IF at >= oidTableOffset /\ (at - oidTableOffset) % sha1Length = 0 /\ k < Len(idx.oids)
        THEN idx.oids[k + 1]
        ELSE <<>>

\* the locals of findObjectInPackIndex when it enters the binary search
SearchStart(idx, sha) ==
    LET offset == oidTableOffset
        p      == prefixNumber(sha)
    IN  [sha         |-> sha,
         startOffset |-> offset + (IF p > 0 THEN idx.fanout[p - 1] ELSE 0) * sha1Length,
         endOffset   |-> offset + idx.fanout[p] * sha1Length,
         found       |-> FALSE,
         probes      |-> <<>>]

\* the iteration with `startOffset = mid` in place of `startOffset = mid + sha1Length`
SearchStepNoAdvance(idx, b) ==
    LET mid    == b.startOffset
                    + (((b.endOffset - b.startOffset) \div sha1Length) \div 2) * sha1Length
        midSha == ReadSha(idx, mid)
        seen   == [b EXCEPT !.probes = Append(b.probes, mid)]
    IN  IF StrLess(midSha, b.sha) THEN [seen EXCEPT !.startOffset = mid]
        ELSE IF StrLess(b.sha, midSha) THEN [seen EXCEPT !.endOffset = mid]
        ELSE [seen EXCEPT !.found = TRUE]

\* one iteration of `while (startOffset < endOffset)`
SearchStep(idx, b) ==
    LET mid    == b.startOffset
                    + (((b.endOffset - b.startOffset) \div sha1Length) \div 2) * sha1Length
        midSha == ReadSha(idx, mid)
        seen   == [b EXCEPT !.probes = Append(b.probes, mid)]
    IN  IF StrLess(midSha, b.sha) THEN [seen EXCEPT !.startOffset = mid + sha1Length]
        ELSE IF StrLess(b.sha, midSha) THEN [seen EXCEPT !.endOffset = mid]
        ELSE [seen EXCEPT !.found = TRUE]

\* the loop runs on while startOffset < endOffset and no `break` was taken
SearchRunning(b) == b.startOffset < b.endOffset /\ ~b.found

\* what findObjectInPackIndex does after the loop
SearchResult(idx, b) ==
    IF b.startOffset >= b.endOffset THEN [st |-> "undefined"]
    ELSE LET index      == (b.startOffset - oidTableOffset) \div sha1Length
             dataOffset == idx.offs[index + 1]
         IN  IF dataOffset \div 65536 >= 32768
             THEN [st |-> "error", error |-> "Packfiles that are larger than 2GiB are not supported yet"]
             ELSE [st |-> "ok", crc32Checksum |-> idx.crc[index + 1], dataOffset |-> dataOffset]

RECURSIVE SearchLoop(_, _)
SearchLoop(idx, b) == IF SearchRunning(b) THEN SearchLoop(idx, SearchStep(idx, b)) ELSE b

\* the checks findObjectInPackIndex makes before it reads the tables
IndexHeaderError(idx) ==
    IF idx.magic # <<255, 116, 79, 99>> THEN "Invalid pack index file"
    ELSE IF idx.version # 2 THEN "Unsupported pack index version. Only version 2 is supported."
    ELSE "none"

findObjectInPackIndex(idx, sha) ==
    IF IndexHeaderError(idx) # "none" THEN [st |-> "error", error |-> IndexHeaderError(idx)]
    ELSE SearchResult(idx, SearchLoop(idx, SearchStart(idx, sha)))

\* buf.readUInt32BE(at)
readUInt32BE(buf, at) ==
    ((buf[at + 1] * 256 + buf[at + 2]) * 256 + buf[at + 3]) * 256 + buf[at + 4]

RECURSIVE Pow2(_)
Pow2(n) == IF n = 0 THEN 1 ELSE 2 * Pow2(n - 1)

\* the loop of parseVarSize: `byte = buf.readUint8(++startOffset)` and what follows; the
\* size bits of the bytes lie side by side, so `|=` adds them; a read past the end of
\* the buffer throws
RECURSIVE VarSizeLoop(_, _, _, _, _)
VarSizeLoop(buf, startOffset, result, shift, length) ==
    LET at == startOffset + 1
    IN  IF at >= Len(buf) THEN [st |-> "error", error |-> "ERR_OUT_OF_RANGE"]
        ELSE LET byte == buf[at + 1]
                 r    == result + (byte % 128) * Pow2(shift)
             IN  IF (byte \div 128) % 2 = 0
                 THEN [st |-> "ok", size |-> r, typeAndSizeLength |-> length + 1]
                 ELSE VarSizeLoop(buf, at, r, shift + 7, length + 1)

parseVarSize(buf, startOffset) == VarSizeLoop(buf, startOffset, buf[startOffset + 1] % 16, 4, 1)

\* numToObjType returning a name for the reserved code 5 instead of throwing
numToObjTypeReservedName(type) ==
    CASE type = 1 -> [st |-> "ok", name |-> TypeName("commit")]
      [] type = 2 -> [st |-> "ok", name |-> TypeName("tree")]
      [] type = 3 -> [st |-> "ok", name |-> TypeName("blob")]
      [] type = 4 -> [st |-> "ok", name |-> TypeName("tag")]
      [] type = 5 -> [st |-> "ok", name |-> <<114, 101, 115, 101, 114, 118, 101, 100>>]
      [] type = 6 -> [st |-> "ok", name |-> <<111, 102, 115, 45, 100, 101, 108, 116, 97>>]
      [] type = 7 -> [st |-> "ok", name |-> <<114, 101, 102, 45, 100, 101, 108, 116, 97>>]
      [] OTHER    -> [st |-> "error", error |-> "Unknown object type"]

\* numToObjType: the type name, or the error thrown
numToObjType(type) ==
    CASE type = 1 -> [st |-> "ok", name |-> TypeName("commit")]
      [] type = 2 -> [st |-> "ok", name |-> TypeName("tree")]
      [] type = 3 -> [st |-> "ok", name |-> TypeName("blob")]
      [] type = 4 -> [st |-> "ok", name |-> TypeName("tag")]
      [] type = 5 -> [st |-> "error", error |-> "This is reserved for future use"]
      [] type = 6 -> [st |-> "ok", name |-> <<111, 102, 115, 45, 100, 101, 108, 116, 97>>]
      [] type = 7 -> [st |-> "ok", name |-> <<114, 101, 102, 45, 100, 101, 108, 116, 97>>]
      [] OTHER    -> [st |-> "error", error |-> "Unknown object type"]

\* getObjectFromPack on the bytes of a pack file
getObjectFromPack(buf, index) ==
    IF Slice(buf, 0, 4) # <<80, 65, 67, 75>>
    THEN [st |-> "error", error |-> "Invalid pack file. Header does not starts with PACK"]
    ELSE IF readUInt32BE(buf, 4) # 2
    THEN [st |-> "error", error |-> "Unsupported pack file version. Only version 2 is supported."]
    ELSE LET typeAndSize == buf[index.dataOffset + 1]
             type        == (typeAndSize \div 16) % 8
         IN  IF type <= 0 \/ type > 7
             THEN [st |-> "error", error |-> "Invalid object type in pack file"]
             ELSE IF type = 6 \/ type = 7
             THEN [st |-> "error", error |-> "Delta objects are not supported yet"]
             ELSE LET v == parseVarSize(buf, index.dataOffset)
                  IN  IF v.st # "ok" THEN v
                      ELSE IF numToObjType(type).st # "ok" THEN numToObjType(type)
                      ELSE LET z == Inflate(Slice(buf, index.dataOffset + v.typeAndSizeLength, Len(buf)))
                           IN  IF z.st # "ok" THEN z
                               ELSE [st |-> "ok", type |-> numToObjType(type).name,
                                     size |-> v.size, data |-> z.data]

\* getObjectFromAnyPack: the packs in the order readdir lists them; the first index that
\* has the id decides
RECURSIVE getObjectFromAnyPack(_, _)
getObjectFromAnyPack(packFiles, sha) ==
    IF packFiles = <<>> THEN [st |-> "undefined"]
    ELSE LET indexInfo == findObjectInPackIndex(packFiles[1].idx, sha)
         IN  IF indexInfo.st = "error" THEN indexInfo
             ELSE IF indexInfo.st = "ok" THEN getObjectFromPack(packFiles[1].pack, indexInfo)
             ELSE getObjectFromAnyPack(Tail(packFiles), sha)

-----------------------------------------------------------------------------
(* object.ts: getObject *)

\* header.split(' ')[0]
FirstWord(str) == IF IndexOf(str, 32, 0) = -1 THEN str ELSE Slice(str, 0, IndexOf(str, 32, 0))

\* header.split(' ')[1], or <<>> when the header has no second word
SecondWord(str) ==
    IF IndexOf(str, 32, 0) = -1 THEN <<>>
    ELSE LET rest == Slice(str, IndexOf(str, 32, 0) + 1, Len(str))
         IN  FirstWord(rest)

\* getObject asking the packs first and the loose file only when no pack has the id
getObjectPackFirst(fs, packFiles, sha) ==
    LET blobPath   == objectPath(sha)
        packObject == getObjectFromAnyPack(packFiles, sha)
    IN  IF packObject.st = "error" THEN packObject
        ELSE IF packObject.st = "ok"
        THEN [st |-> "ok", sha |-> sha,
              header |-> packObject.type \o <<32>> \o Decimal(packObject.size) \o <<0>>,
              content |-> packObject.data,
              type |-> packObject.type, from |-> "pack"]
        ELSE IF blobPath \notin DOMAIN fs
        THEN [st |-> "error", error |-> "Object not found"]
        ELSE LET z == Inflate(fs[blobPath])
             IN  IF z.st # "ok" THEN z
                 ELSE LET buf       == z.data
                          headerEnd == IndexOf(buf, 0, 0)
                      IN  IF headerEnd = -1
                          THEN [st |-> "error", error |-> "Blob header is malformed"]
                          ELSE LET header == BufferToString(Slice(buf, 0, headerEnd))
                               IN  [st |-> "ok", sha |-> sha, header |-> header,
                                    content |-> Slice(buf, headerEnd + 1, Len(buf)),
                                    type |-> FirstWord(header), from |-> "loose"]

getObject(fs, packFiles, sha) ==
    LET blobPath == objectPath(sha)
    IN  IF blobPath \in DOMAIN fs
        THEN LET z == Inflate(fs[blobPath])
             IN  IF z.st # "ok" THEN z
                 ELSE LET buf       == z.data
                          headerEnd == IndexOf(buf, 0, 0)
                      IN  IF headerEnd = -1
                          THEN [st |-> "error", error |-> "Blob header is malformed"]
                          ELSE LET header == BufferToString(Slice(buf, 0, headerEnd))
                               IN  [st |-> "ok", sha |-> sha, header |-> header,
                                    content |-> Slice(buf, headerEnd + 1, Len(buf)),
                                    type |-> FirstWord(header), from |-> "loose"]
        ELSE LET packObject == getObjectFromAnyPack(packFiles, sha)
             IN  IF packObject.st = "undefined"
                 THEN [st |-> "error", error |-> "Object not found"]
                 ELSE IF packObject.st = "error" THEN packObject
                 ELSE [st |-> "ok", sha |-> sha,
                       header |-> packObject.type \o <<32>> \o Decimal(packObject.size) \o <<0>>,
                       content |-> packObject.data,
                       type |-> packObject.type, from |-> "pack"]

-----------------------------------------------------------------------------
(* The environment: objects as git frames and stores them *)

\* the canonical framing "<kind> <length>\0" || payload
Frame(type, payload) == TypeName(type) \o <<32>> \o Decimal(Len(payload)) \o <<0>> \o payload

NoRes == [st |-> "none"]

NoSearch == [sha |-> <<>>, startOffset |-> 0, endOffset |-> 0, found |-> FALSE, probes |-> <<>>]

-----------------------------------------------------------------------------
(* SpecHash: hashObject, then writeObject with the same arguments, then getObject of
   the id that writeObject returned *)

ContentBytes == {0, 10, 13, 97, 255}

Contents == UNION {[1..n -> ContentBytes] : n \in 0..MaxLen}

AutoCrlf == {"unset", "false", "true", "input"}

FileNames == {"", "a.txt", "a.png"}

HashInit ==
    /\ args \in [type : gitObjectTypes, content : Contents, autocrlf : AutoCrlf,
                 fileName : FileNames, filters : BOOLEAN, shardExists : BOOLEAN]
    /\ dirs = IF args.shardExists
              THEN {objectDir(hashObject(args.type, args.content, args.autocrlf,
                                         args.fileName, args.filters)).dir}
              ELSE {}
    /\ files = <<>>
    /\ packs = <<>>
    /\ res = [hash |-> NoRes, write |-> NoRes, get |-> NoRes]
    /\ hist = {}
    /\ pc = "start"
    /\ bs = NoSearch

HashObject ==
    /\ pc = "start"
    /\ res' = [res EXCEPT !.hash =
                 [st |-> "ok",
                  sha |-> hashObject(args.type, args.content, args.autocrlf, args.fileName, args.filters)]]
    /\ pc' = "hashed"
    /\ UNCHANGED <<dirs, files, packs, args, hist, bs>>

WriteObject ==
    /\ pc = "hashed"
    /\ LET w == writeObject(dirs, files, args.type, args.content, args.autocrlf,
                            args.fileName, args.filters)
       IN  /\ dirs' = w.dirs
           /\ files' = w.files
           /\ res' = [res EXCEPT !.write =
                        IF w.st = "ok" THEN [st |-> "ok", sha |-> w.sha]
                        ELSE [st |-> "error", error |-> w.error]]
           /\ pc' = IF w.st = "ok" THEN "written" ELSE "done"
    /\ UNCHANGED <<packs, args, hist, bs>>

GetObject ==
    /\ pc = "written"
    /\ res' = [res EXCEPT !.get = getObject(files, packs, res.write.sha)]
    /\ pc' = "done"
    /\ UNCHANGED <<dirs, files, packs, args, hist, bs>>

HashNext == HashObject \/ WriteObject \/ GetObject

SpecHash == HashInit /\ [][HashNext]_vars

\* the bytes that hashObject and writeObject feed to SHA-1 after the header
HashedBytes(a) == UpdateBytes(preProcessObject(a.content, a.autocrlf, a.fileName, a.filters))

\* line-ending normalization on the UTF-8 reading of the bytes
Normalized(content) == BufferFrom(fixLineEndings(BufferToString(content)))

\* C1: hashObject and writeObject, called with the same arguments, return the same id,
\* and that id is the SHA-1 of "<kind> <length>\0" followed by the bytes that are hashed,
\* <length> being the decimal length of exactly those bytes; the file system the call
\* finds has no part in it.
C1_SameOid ==
    /\ res.hash.st = "ok" => res.hash.sha = Sha1Hex(Frame(args.type, HashedBytes(args)))
    /\ res.write.st = "ok" => res.write.sha = res.hash.sha

\* writeObject returned for content whose filtered form has another length
C1_Witness ==
    /\ res.write.st = "ok"
    /\ Len(HashedBytes(args)) # Len(args.content)

\* C2: the bytes are normalized if and only if filters is true and the content is not
\* binary and core.autocrlf is true or input; in every other case they are hashed
\* unchanged.
C2_FilterIffEnabled ==
    LET claimed == IF args.filters /\ ~isBinary(args.fileName, args.content)
                      /\ args.autocrlf \in {"true", "input"}
                   THEN Normalized(args.content)
                   ELSE args.content
    IN  /\ res.hash.st = "ok" => res.hash.sha = Sha1Hex(Frame(args.type, claimed))
        /\ res.write.st = "ok" => res.write.sha = Sha1Hex(Frame(args.type, claimed))

\* C3: writeObject with filters off, then getObject of the id it returned, gives the
\* same kind and the same bytes, and the length in the stored header is the length of
\* the stored payload.  (Stated for core.autocrlf other than input, where
\* preProcessObject passes the bytes through.)
C3_RoundTrip ==
    (~args.filters /\ args.autocrlf # "input" /\ res.get.st # "none") =>
        /\ res.get.st = "ok"
        /\ res.get.type = TypeName(args.type)
        /\ res.get.content = args.content
        /\ SecondWord(res.get.header) = Decimal(Len(res.get.content))

\* C4: writeObject succeeds when objects/<oid[0..2]>/ does not exist yet: after the call
\* the directory and the object file exist.
C4_CreatesShardDir ==
    (~args.shardExists /\ res.write.st # "none") =>
        /\ res.write.st = "ok"
        /\ objectDir(res.write.sha).dir \in dirs
        /\ objectPath(res.write.sha) \in DOMAIN files

-----------------------------------------------------------------------------
(* The environment: packs as git writes them *)

\* an object of a pack: [type, payload]
Obj(type, payload) == [type |-> type, payload |-> payload]

OidOf(o) == Sha1Hex(Frame(o.type, o.payload))

TypeCode(type) ==
    CASE type = "commit" -> 1 [] type = "tree" -> 2 [] type = "blob" -> 3 [] type = "tag" -> 4

\* the bytes of a size after its low four bits: seven bits a byte, low bits first, the
\* high bit set on every byte but the last
RECURSIVE SizeTail(_)
SizeTail(n) == IF n < 128 THEN <<n>> ELSE <<128 + (n % 128)>> \o SizeTail(n \div 128)

\* the header of a pack entry: kind in bits 4..6 and size bits 0..3 in the first byte,
\* whose high bit says that more size bytes follow
EntryHeader(code, size) ==
    IF size < 16 THEN <<code * 16 + size>>
    ELSE <<128 + code * 16 + (size % 16)>> \o SizeTail(size \div 16)

PackEntry(o) == EntryHeader(TypeCode(o.type), Len(o.payload)) \o Deflate(o.payload)

UInt32BE(n) == <<(n \div 16777216) % 256, (n \div 65536) % 256, (n \div 256) % 256, n % 256>>

RECURSIVE PackBody(_)
PackBody(objs) == IF objs = <<>> THEN <<>> ELSE PackEntry(objs[1]) \o PackBody(Tail(objs))

\* a pack file: "PACK", version 2, the number of objects, the entries, the trailing digest
PackFile(objs) ==
    LET body == <<80, 65, 67, 75>> \o UInt32BE(2) \o UInt32BE(Len(objs)) \o PackBody(objs)
    IN  body \o DigestBytes(body)

\* the offset of the k-th entry of the pack
EntryOffset(objs, k) == 12 + Len(PackBody(SubSeq(objs, 1, k - 1)))

\* the ids of a set in ascending order
RECURSIVE SortOids(_)
SortOids(S) ==
    IF S = {} THEN <<>>
    ELSE LET m == CHOOSE x \in S : \A y \in S : y = x \/ StrLess(x, y)
         IN  <<m>> \o SortOids(S \ {m})

\* the version 2 index of a pack: fan-out table, sorted ids, and at the same position
\* the checksum and the offset of each id
PackIndex(objs) ==
    LET oids  == SortOids({OidOf(objs[k]) : k \in 1..Len(objs)})
        at(i) == CHOOSE k \in 1..Len(objs) : OidOf(objs[k]) = oids[i]
    IN  [magic   |-> <<255, 116, 79, 99>>,
         version |-> 2,
         fanout  |-> [b \in 0..255 |-> Cardinality({i \in 1..Len(oids) : prefixNumber(oids[i]) <= b})],
         oids    |-> oids,
         crc     |-> [i \in 1..Len(oids) |-> Adler(PackEntry(objs[at(i)]))],
         offs    |-> [i \in 1..Len(oids) |-> EntryOffset(objs, at(i))]]

GitPack(objs) == [idx |-> PackIndex(objs), pack |-> PackFile(objs)]

-----------------------------------------------------------------------------
(* SpecPack: findObjectInPackIndex on the index of one pack, one iteration of its
   binary search at a time, then getObjectFromPack with what it returned *)

\* the most objects in a pack
MaxPackObjects == 3

\* the objects packs are made of, in pack order: three blobs whose ids share the first
\* byte 0x32, a blob of 17 bytes (a two-byte entry header), the empty tree, and blobs
\* whose ids start with 0x00 and 0xff
PackPool ==
    << Obj("blob", <<99>>),
       Obj("tree", <<>>),
       Obj("blob", <<97>>),
       Obj("blob", [i \in 1..17 |-> 97]),
       Obj("blob", <<98>>),
       Obj("blob", <<120, 97, 97>>),
       Obj("blob", <<120, 97, 10>>) >>

\* the objects of the pool at the positions S, in pool order
RECURSIVE Pick(_)
Pick(S) ==
    IF S = {} THEN <<>>
    ELSE LET k == CHOOSE x \in S : \A y \in S : x <= y
         IN  <<PackPool[k]>> \o Pick(S \ {k})

PackLists == {Pick(S) : S \in {T \in SUBSET (1..Len(PackPool)) : Cardinality(T) <= MaxPackObjects}}

\* the ids looked up: those of the pool, an id above the pool's 0x32 ids, an id beside
\* the pool's 0x00 id, the least and the greatest id
Targets ==
    {OidOf(PackPool[k]) : k \in 1..Len(PackPool)}
        \cup {OidOf(Obj("blob", <<100>>)), OidOf(Obj("blob", <<120, 97, 98>>)),
              [i \in 1..(2 * sha1Length) |-> 0], [i \in 1..(2 * sha1Length) |-> 15]}

PackInit ==
    /\ \E objs \in PackLists : packs = <<GitPack(objs)>>
    /\ args \in [sha : Targets]
    /\ dirs = {}
    /\ files = <<>>
    /\ res = [find |-> NoRes, pack |-> NoRes]
    /\ hist = {}
    /\ pc = "start"
    /\ bs = NoSearch

\* findObjectInPackIndex up to the loop: the header checks and the fan-out range
FindStart ==
    /\ pc = "start"
    /\ IF IndexHeaderError(packs[1].idx) = "none"
       THEN /\ bs' = SearchStart(packs[1].idx, args.sha)
            /\ pc' = "search"
            /\ res' = res
       ELSE /\ res' = [res EXCEPT !.find = [st |-> "error", error |-> IndexHeaderError(packs[1].idx)]]
            /\ pc' = "done"
            /\ bs' = bs
    /\ UNCHANGED <<dirs, files, packs, args, hist>>

FindStep ==
    /\ pc = "search"
    /\ SearchRunning(bs)
    /\ bs' = SearchStep(packs[1].idx, bs)
    /\ UNCHANGED <<dirs, files, packs, args, res, hist, pc>>

FindReturn ==
    /\ pc = "search"
    /\ ~SearchRunning(bs)
    /\ res' = [res EXCEPT !.find = SearchResult(packs[1].idx, bs)]
    /\ pc' = IF SearchResult(packs[1].idx, bs).st = "ok" THEN "found" ELSE "done"
    /\ UNCHANGED <<dirs, files, packs, args, hist, bs>>

GetObjectFromPack ==
    /\ pc = "found"
    /\ res' = [res EXCEPT !.pack = getObjectFromPack(packs[1].pack, res.find)]
    /\ pc' = "done"
    /\ UNCHANGED <<dirs, files, packs, args, hist, bs>>

PackNext == FindStart \/ FindStep \/ FindReturn \/ GetObjectFromPack

SpecPack == PackInit /\ [][PackNext]_vars

\* the positions of the id table that hold the id
PositionsOf(idx, sha) == {i \in 1..Len(idx.oids) : idx.oids[i] = sha}

\* C8: for an id stored at position i of the index, findObjectInPackIndex returns the
\* checksum and the offset stored at position i, and getObjectFromPack at that offset
\* yields the object whose recomputed id is the id looked up.
C8_EntryOfTheOid ==
    \A i \in PositionsOf(packs[1].idx, args.sha) :
        /\ res.find.st # "none" =>
              /\ res.find.st = "ok"
              /\ res.find.crc32Checksum = packs[1].idx.crc[i]
              /\ res.find.dataOffset = packs[1].idx.offs[i]
        /\ res.pack.st # "none" =>
              /\ res.pack.st = "ok"
              /\ Sha1Hex(res.pack.type \o <<32>> \o Decimal(Len(res.pack.data)) \o <<0>>
                           \o res.pack.data) = args.sha

\* C9: for an id that is not in the id table the search ends and returns undefined, and
\* it probes only slots of the fan-out bucket of the id's first byte, each at most once
\* (so at most as many probes as the bucket has slots), also for an empty bucket and for
\* the first byte 0x00.
C9_AbsentIsUndefined ==
    LET idx == packs[1].idx
        p   == prefixNumber(args.sha)
        lo  == IF p > 0 THEN idx.fanout[p - 1] ELSE 0
        hi  == idx.fanout[p]
    IN  pc # "start" =>
          /\ \A k \in 1..Len(bs.probes) :
                \E j \in lo..(hi - 1) : bs.probes[k] = oidTableOffset + j * sha1Length
          /\ \A k, m \in 1..Len(bs.probes) : k # m => bs.probes[k] # bs.probes[m]
          /\ PositionsOf(idx, args.sha) = {} =>
                /\ ~bs.found
                /\ res.find.st \in {"none", "undefined"}
                /\ pc = "done" => res.find.st = "undefined"

\* an absent id whose first byte is 0x00 was looked up in a bucket that is not empty
C9_Witness ==
    /\ pc = "done"
    /\ PositionsOf(packs[1].idx, args.sha) = {}
    /\ prefixNumber(args.sha) = 0
    /\ Len(bs.probes) >= 1
    /\ res.find.st = "undefined"

\* an absent id was looked up in an empty bucket
C9_WitnessEmptyBucket ==
    /\ pc = "done"
    /\ Len(packs[1].idx.oids) >= 1
    /\ prefixNumber(args.sha) > 0
    /\ bs.probes = <<>>
    /\ res.find.st = "undefined"

\* the size and the header length of the pack entry at `at`, as the format defines them:
\* the low nibble of the first byte, then seven bits for each following byte, a byte
\* following only while the current byte has its high bit set
RECURSIVE EntrySize(_, _, _, _, _)
EntrySize(buf, at, size, shift, length) ==
    IF buf[at + 1] < 128 THEN [size |-> size, length |-> length]
    ELSE EntrySize(buf, at + 1, size + (buf[at + 2] % 128) * Pow2(shift), shift + 7, length + 1)

\* C10: getObjectFromPack decodes the size as the low nibble of the first byte plus seven
\* bits for each following byte, reads a following byte only while the current byte has
\* its high bit set, and inflates the body that starts after the header; an entry whose
\* first byte has the high bit clear has a one-byte header.
C10_EntrySize ==
    res.pack.st # "none" =>
        LET buf == packs[1].pack
            at  == res.find.dataOffset
            e   == EntrySize(buf, at, buf[at + 1] % 16, 4, 1)
        IN  /\ res.pack.st = "ok"
            /\ res.pack.size = e.size
            /\ res.pack.data = Inflate(Slice(buf, at + e.length, Len(buf))).data

-----------------------------------------------------------------------------
(* SpecStore: a repository with loose objects and packs that git wrote, and up to
   MaxOps calls of writeObject and getObject on it *)

\* the loose objects git may have written before the first call
LoosePool == {Obj("blob", <<97>>), Obj("tree", <<>>), Obj("blob", <<255>>)}

LooseChoices == {{}, {Obj("blob", <<97>>)}, LoosePool}

\* the loose object file git writes: the deflated frame
LooseFiles(objs) ==
    [q \in {objectPath(OidOf(o)) : o \in objs} |->
        Deflate(Frame((CHOOSE o \in objs : objectPath(OidOf(o)) = q).type,
                      (CHOOSE o \in objs : objectPath(OidOf(o)) = q).payload))]

\* the pack files of objects/pack in the order readdir lists them
PackChoices ==
    { <<>>,
      <<GitPack(<<Obj("tree", <<>>), Obj("blob", <<98>>)>>)>>,
      <<GitPack(<<Obj("blob", <<99>>)>>), GitPack(<<Obj("blob", [i \in 1..17 |-> 97]), Obj("blob", <<97>>)>>)>> }

\* the arguments of the writeObject calls
StoreWrites ==
    { [type |-> "blob",   content |-> <<97>>,            autocrlf |-> "false", fileName |-> "",      filters |-> FALSE],
      [type |-> "blob",   content |-> <<98>>,            autocrlf |-> "false", fileName |-> "",      filters |-> FALSE],
      [type |-> "blob",   content |-> <<255>>,           autocrlf |-> "false", fileName |-> "",      filters |-> FALSE],
      [type |-> "blob",   content |-> <<239, 191, 189>>, autocrlf |-> "false", fileName |-> "",      filters |-> FALSE],
      [type |-> "blob",   content |-> <<255>>,           autocrlf |-> "input", fileName |-> "",      filters |-> FALSE],
      [type |-> "blob",   content |-> <<13, 10>>,        autocrlf |-> "true",  fileName |-> "a.txt", filters |-> TRUE],
      [type |-> "commit", content |-> <<10>>,            autocrlf |-> "unset", fileName |-> "",      filters |-> TRUE] }

\* the shard directories of the ids the calls can write
WriteShards ==
    {objectDir(hashObject(a.type, a.content, a.autocrlf, a.fileName, a.filters)).dir : a \in StoreWrites}

\* the id whose object file is at the path
OidAt(path) == path.dir \o path.name

\* the ids of the id tables of the packs
PackedOids(packFiles) ==
    UNION {{packFiles[k].idx.oids[i] : i \in 1..Len(packFiles[k].idx.oids)} : k \in 1..Len(packFiles)}

\* the ids getObject is called with: those of the loose files, of the packs, and one
\* that is nowhere
StoreTargets ==
    {OidAt(q) : q \in DOMAIN files} \cup PackedOids(packs) \cup {[i \in 1..(2 * sha1Length) |-> 1]}

StoreInit ==
    /\ \E objs \in LooseChoices, shards \in {{}, WriteShards} :
          /\ files = LooseFiles(objs)
          /\ dirs = {objectDir(OidOf(o)).dir : o \in objs} \cup shards
    /\ packs \in PackChoices
    /\ args = [op |-> "none"]
    /\ res = [write |-> NoRes, get |-> NoRes]
    /\ hist = <<>>
    /\ pc = "idle"
    /\ bs = NoSearch

\* a call of writeObject; hist keeps its arguments, its outcome and the object files
\* before and after it
StoreWrite ==
    /\ Len(hist) < MaxOps
    /\ \E a \in StoreWrites :
          LET w == writeObject(dirs, files, a.type, a.content, a.autocrlf, a.fileName, a.filters)
          IN  /\ dirs' = w.dirs
              /\ files' = w.files
              /\ args' = [op |-> "write", write |-> a]
              /\ res' = [res EXCEPT !.write =
                           IF w.st = "ok" THEN [st |-> "ok", sha |-> w.sha]
                           ELSE [st |-> "error", error |-> w.error]]
              /\ hist' = Append(hist, [op |-> "write", args |-> a, st |-> w.st, sha |-> w.sha,
                                       before |-> files, after |-> w.files])
    /\ UNCHANGED <<packs, pc, bs>>

\* a call of getObject
StoreGet ==
    /\ Len(hist) < MaxOps
    /\ \E sha \in StoreTargets :
          /\ args' = [op |-> "get", sha |-> sha]
          /\ res' = [res EXCEPT !.get = getObject(files, packs, sha)]
          /\ hist' = Append(hist, [op |-> "get", sha |-> sha])
    /\ UNCHANGED <<dirs, files, packs, pc, bs>>

StoreNext == StoreWrite \/ StoreGet

SpecStore == StoreInit /\ [][StoreNext]_vars

C6_LooseThenPacks ==
    args.op = "get" =>
        LET sha    == args.sha
            path   == objectPath(sha)
            loose  == path \in DOMAIN files
            packed == sha \in PackedOids(packs)
        IN  /\ loose =>
                  /\ res.get.st = "ok"
                  /\ res.get.from = "loose"
                  /\ BufferFrom(res.get.header) \o <<0>> \o res.get.content = Inflate(files[path]).data
            /\ (~loose /\ packed) =>
                  \/ /\ res.get.st = "ok"
                     /\ res.get.from = "pack"
                     /\ res.get.type = getObjectFromAnyPack(packs, sha).type
                     /\ res.get.content = getObjectFromAnyPack(packs, sha).data
                  \/ /\ res.get.st = "error"
                     /\ res.get.error # "Object not found"
                     /\ res.get = getObjectFromAnyPack(packs, sha)
            /\ (res.get.st = "error" /\ res.get.error = "Object not found") <=> (~loose /\ ~packed)

\* an id that is loose and also in a pack was read from its loose file
C6_Witness ==
    /\ args.op = "get"
    /\ objectPath(args.sha) \in DOMAIN files
    /\ args.sha \in PackedOids(packs)
    /\ res.get.st = "ok"
    /\ res.get.from = "loose"

\* an id that is only in the second pack was read from that pack
C6_WitnessSecondPack ==
    /\ args.op = "get"
    /\ Len(packs) = 2
    /\ args.sha \notin PackedOids(<<packs[1]>>)
    /\ res.get.st = "ok"
    /\ res.get.from = "pack"

\* an id that is nowhere was asked for while loose files and packs were there
C6_WitnessNotFound ==
    /\ args.op = "get"
    /\ files # <<>> /\ packs # <<>>
    /\ res.get.st = "error"
    /\ res.get.error = "Object not found"

\* C7: a loose object that getObject returns has a kind that is one of commit, tree,
\* blob, tag, and a header whose decimal length is the byte length of the payload.
C7_VerifiesHeader ==
    (args.op = "get" /\ res.get.st = "ok" /\ res.get.from = "loose") =>
        /\ res.get.type \in {TypeName(t) : t \in gitObjectTypes}
        /\ SecondWord(res.get.header) = Decimal(Len(res.get.content))

-----------------------------------------------------------------------------
(* SpecKind: getObjectFromPack on a pack whose one entry has any of the eight kind
   codes *)

\* the payloads of the entry: empty, and of 14 to 16 + MaxLen bytes, so that the size
\* takes one byte and two bytes of the entry header
KindPayloads ==
    {<<>>} \cup {[i \in 1..n |-> b] : n \in 14..(16 + MaxLen), b \in {0, 97}}

\* a pack file with one entry of the kind code and the payload
RawPack(code, payload) ==
    LET body == <<80, 65, 67, 75>> \o UInt32BE(2) \o UInt32BE(1)
                   \o EntryHeader(code, Len(payload)) \o Deflate(payload)
    IN  body \o DigestBytes(body)

KindInit ==
    /\ args \in [code : 0..7, payload : KindPayloads]
    /\ packs = <<[pack |-> RawPack(args.code, args.payload)]>>
    /\ dirs = {}
    /\ files = <<>>
    /\ res = [pack |-> NoRes]
    /\ hist = {}
    /\ pc = "start"
    /\ bs = NoSearch

\* getObjectFromPack at the offset of the first entry
ReadEntry ==
    /\ pc = "start"
    /\ res' = [res EXCEPT !.pack = getObjectFromPack(packs[1].pack, [crc32Checksum |-> 0, dataOffset |-> 12])]
    /\ pc' = "done"
    /\ UNCHANGED <<dirs, files, packs, args, hist, bs>>

KindNext == ReadEntry

SpecKind == KindInit /\ [][KindNext]_vars

\* C11: the kind codes 1, 2, 3, 4 give commit, tree, blob, tag; the codes 0, 5, 6 and 7
\* give an error and no object; an object that is returned has one of the four kinds.
C11_KindCodes ==
    pc = "done" =>
        /\ args.code = 0 => (res.pack.st = "error" /\ res.pack.error = "Invalid object type in pack file")
        /\ args.code = 5 => (res.pack.st = "error" /\ res.pack.error = "This is reserved for future use")
        /\ args.code \in {6, 7} =>
              (res.pack.st = "error" /\ res.pack.error = "Delta objects are not supported yet")
        /\ (args.code \in 1..4 /\ Len(args.payload) >= 16) => res.pack.st = "ok"
        /\ res.pack.st = "ok" =>
              /\ args.code \in 1..4
              /\ res.pack.type = <<TypeName("commit"), TypeName("tree"), TypeName("blob"),
                                   TypeName("tag")>>[args.code]

\* an entry of kind code 4 was returned as a tag
C11_Witness ==
    /\ pc = "done"
    /\ args.code = 4
    /\ res.pack.st = "ok"
    /\ res.pack.type = TypeName("tag")
    /\ res.pack.data = args.payload

\* an entry of the reserved kind code 5 was refused
C11_WitnessReserved ==
    /\ pc = "done"
    /\ args.code = 5
    /\ Len(args.payload) >= 16
    /\ res.pack.st = "error"

-----------------------------------------------------------------------------
(* git-repo.ts: getRef and getHead.  The files of the repository other than objects are
   in the same file system as the objects: HEAD and packed-refs have no directory part,
   the loose ref refs/<ref> is the file <ref> of the directory refs *)

\* str.startsWith(prefix)
StartsWith(str, prefix) == Len(str) >= Len(prefix) /\ SubSeq(str, 1, Len(prefix)) = prefix

\* str.endsWith(suffix)
EndsWith(str, suffix) ==
    Len(str) >= Len(suffix) /\ SubSeq(str, Len(str) - Len(suffix) + 1, Len(str)) = suffix

\* the white space and line terminators of ASCII that trim() removes
WhiteSpace == {9, 10, 11, 12, 13, 32}

\* str.trim()
Trim(str) ==
    LET keep == {i \in 1..Len(str) : str[i] \notin WhiteSpace}
    IN  IF keep = {} THEN <<>>
        ELSE SubSeq(str, CHOOSE i \in keep : \A j \in keep : i <= j,
                         CHOOSE i \in keep : \A j \in keep : i >= j)

\* str.split('\n')
RECURSIVE SplitLines(_)
SplitLines(str) ==
    IF IndexOf(str, 10, 0) = -1 THEN <<str>>
    ELSE <<Slice(str, 0, IndexOf(str, 10, 0))>> \o SplitLines(Slice(str, IndexOf(str, 10, 0) + 1, Len(str)))

\* isHash: /^[0-9a-f]{40}$/
isHash(hash) ==
    /\ Len(hash) = 2 * sha1Length
    /\ \A i \in 1..Len(hash) : hash[i] \in (48..57) \cup (97..102)

\* an id as the string of its hex digits, and back
StringOfSha(sha) == [i \in 1..Len(sha) |-> IF sha[i] < 10 THEN 48 + sha[i] ELSE 87 + sha[i]]

ShaOfString(str) == [i \in 1..Len(str) |-> IF str[i] <= 57 THEN str[i] - 48 ELSE str[i] - 87]

\* `${this.path}/refs/${ref}`
refPath(ref) == [dir |-> <<114, 101, 102, 115>>, name |-> ref]

\* `${this.path}/packed-refs`
packedRefsPath == [dir |-> <<>>, name |-> <<112, 97, 99, 107, 101, 100, 45, 114, 101, 102, 115>>]

\* `${this.path}/HEAD`
headPath == [dir |-> <<>>, name |-> <<72, 69, 65, 68>>]

\* packedRefs.split('\n').find((line) => line.endsWith(`refs/${ref}`)): the first such
\* line, or undefined
FindLine(lines, ref) ==
    LET hits == {i \in 1..Len(lines) : EndsWith(lines[i], <<114, 101, 102, 115, 47>> \o ref)}
    IN  IF hits = {} THEN [st |-> "undefined"]
        ELSE [st |-> "ok", line |-> lines[CHOOSE i \in hits : \A j \in hits : i <= j]]

\* GitRepo.getRef: the value returned or the error thrown
getRef(fs, ref) ==
    IF refPath(ref) \in DOMAIN fs
    THEN [st |-> "ok", value |-> Trim(BufferToString(fs[refPath(ref)]))]
    ELSE IF packedRefsPath \notin DOMAIN fs
    THEN [st |-> "error", error |-> "ENOENT"]
    ELSE LET line == FindLine(SplitLines(BufferToString(fs[packedRefsPath])), ref)
         IN  IF line.st = "ok" THEN [st |-> "ok", value |-> FirstWord(line.line)]
             ELSE [st |-> "error", error |-> "Ref not found"]

\* GitRepo.getBranch
getBranch(fs, name) == getRef(fs, <<104, 101, 97, 100, 115, 47>> \o name)

\* getHead accepting an id as HEAD whatever the kind of its object
getHeadAnyKind(fs, packFiles) ==
    IF headPath \notin DOMAIN fs THEN [st |-> "error", error |-> "ENOENT"]
    ELSE LET content == Trim(BufferToString(fs[headPath]))
         IN  IF StartsWith(content, <<114, 101, 102, 58, 32, 114, 101, 102, 115, 47, 104, 101, 97, 100, 115, 47>>)
             THEN LET commit == getBranch(fs, Slice(content, 16, Len(content)))
                  IN  IF commit.st # "ok" THEN commit
                      ELSE [st |-> "ok", type |-> "branch", name |-> Slice(content, 16, Len(content)),
                            commit |-> commit.value]
             ELSE IF StartsWith(content, <<114, 101, 102, 58, 32, 114, 101, 102, 115, 47, 116, 97, 103, 115, 47>>)
             THEN LET commit == getRef(fs, Slice(content, 5, Len(content)))
                  IN  IF commit.st # "ok" THEN commit
                      ELSE [st |-> "ok", type |-> "tag", name |-> Slice(content, 15, Len(content)),
                            commit |-> commit.value]
             ELSE IF isHash(content)
             THEN LET object == getObject(fs, packFiles, ShaOfString(content))
                  IN  IF object.st # "ok" THEN object
                      ELSE [st |-> "ok", type |-> "commit", name |-> content, commit |-> content]
             ELSE [st |-> "error", error |-> "Invalid HEAD file"]

\* GitRepo.getHead: the value returned or the error thrown
getHead(fs, packFiles) ==
    IF headPath \notin DOMAIN fs THEN [st |-> "error", error |-> "ENOENT"]
    ELSE LET content == Trim(BufferToString(fs[headPath]))
         IN  IF StartsWith(content, <<114, 101, 102, 58, 32, 114, 101, 102, 115, 47, 104, 101, 97, 100, 115, 47>>)
             THEN LET commit == getBranch(fs, Slice(content, 16, Len(content)))
                  IN  IF commit.st # "ok" THEN commit
                      ELSE [st |-> "ok", type |-> "branch", name |-> Slice(content, 16, Len(content)),
                            commit |-> commit.value]
             ELSE IF StartsWith(content, <<114, 101, 102, 58, 32, 114, 101, 102, 115, 47, 116, 97, 103, 115, 47>>)
             THEN LET commit == getRef(fs, Slice(content, 5, Len(content)))
                  IN  IF commit.st # "ok" THEN commit
                      ELSE [st |-> "ok", type |-> "tag", name |-> Slice(content, 15, Len(content)),
                            commit |-> commit.value]
             ELSE IF isHash(content)
             THEN LET object == getObject(fs, packFiles, ShaOfString(content))
                  IN  IF object.st # "ok" THEN object
                      ELSE IF object.type = TypeName("commit")
                      THEN [st |-> "ok", type |-> "commit", name |-> content, commit |-> content]
                      ELSE [st |-> "error", error |-> "HEAD points to invalid object type"]
             ELSE [st |-> "error", error |-> "Invalid HEAD file"]

-----------------------------------------------------------------------------
(* SpecRefs: a repository with loose objects, at most one pack, loose refs, HEAD and
   possibly packed-refs, and one call of getRef or of getHead on it *)

\* the objects of the repository: a commit, a blob and a tag that are loose, and a
\* commit that is in the pack when there is one
RefCommit == Obj("commit", <<116, 114, 101, 101, 10>>)

RefBlob == Obj("blob", <<97>>)

RefTag == Obj("tag", <<116, 97, 103, 10>>)

PackedCommit == Obj("commit", [i \in 1..17 |-> 97])

\* the refs that are asked for: a branch, a tag, and a branch that is nowhere
RefMain == <<104, 101, 97, 100, 115, 47, 109>>

RefTagT == <<116, 97, 103, 115, 47, 116>>

RefNone == <<104, 101, 97, 100, 115, 47, 120>>

\* a branch whose full name ends in the text refs/tags/t
RefSuffix == <<104, 101, 97, 100, 115, 47, 114, 101, 102, 115, 47, 116, 97, 103, 115, 47, 116>>

\* the file of a loose ref, and a line of packed-refs
RefFile(o) == BufferFrom(StringOfSha(OidOf(o)) \o <<10>>)

RefLine(o, ref) == StringOfSha(OidOf(o)) \o <<32>> \o <<114, 101, 102, 115, 47>> \o ref \o <<10>>

\* the loose refs of the repository
LooseRefChoices ==
    { <<>>,
      [q \in {refPath(RefMain)} |-> RefFile(RefCommit)],
      [q \in {refPath(RefTagT)} |-> RefFile(RefTag)],
      [q \in {refPath(RefMain), refPath(RefTagT)} |-> RefFile(RefCommit)] }

\* packed-refs: no file, or its lines
PackedRefsChoices ==
    { <<>>,
      [q \in {packedRefsPath} |-> <<>>],
      [q \in {packedRefsPath} |-> BufferFrom(RefLine(PackedCommit, RefMain))],
      [q \in {packedRefsPath} |-> BufferFrom(RefLine(RefBlob, RefSuffix))],
      [q \in {packedRefsPath} |->
          BufferFrom(RefLine(RefBlob, RefSuffix) \o RefLine(RefCommit, RefTagT))],
      [q \in {packedRefsPath} |->
          BufferFrom(RefLine(PackedCommit, RefMain) \o RefLine(RefTag, RefTagT))] }

\* the content of HEAD
HeadChoices ==
    { BufferFrom(<<114, 101, 102, 58, 32, 114, 101, 102, 115, 47, 104, 101, 97, 100, 115, 47>> \o Slice(RefMain, 6, Len(RefMain)) \o <<10>>),
      BufferFrom(<<114, 101, 102, 58, 32, 114, 101, 102, 115, 47, 104, 101, 97, 100, 115, 47>> \o Slice(RefNone, 6, Len(RefNone)) \o <<10>>),
      BufferFrom(<<114, 101, 102, 58, 32, 114, 101, 102, 115, 47, 116, 97, 103, 115, 47>> \o Slice(RefTagT, 5, Len(RefTagT)) \o <<10>>),
      BufferFrom(<<114, 101, 102, 58, 32, 114, 101, 102, 115, 47, 114, 101, 109, 111, 116, 101, 115, 47, 111>> \o <<10>>),
      RefFile(RefCommit),
      RefFile(RefBlob),
      RefFile(RefTag),
      RefFile(PackedCommit),
      <<10>> }

\* the union of file systems with disjoint paths
Merge(f, g) == [q \in DOMAIN f \cup DOMAIN g |-> IF q \in DOMAIN f THEN f[q] ELSE g[q]]

RefsInit ==
    /\ \E loose \in LooseRefChoices, packed \in PackedRefsChoices, head \in HeadChoices :
          files = Merge(Merge(LooseFiles({RefCommit, RefBlob, RefTag}), loose),
                        Merge(packed, [q \in {headPath} |-> head]))
    /\ packs \in {<<>>, <<GitPack(<<PackedCommit>>)>>}
    /\ dirs = {}
    /\ args = [op |-> "none"]
    /\ res = [ref |-> NoRes, head |-> NoRes]
    /\ hist = {}
    /\ pc = "start"
    /\ bs = NoSearch

GetRef ==
    /\ pc = "start"
    /\ \E ref \in {RefMain, RefTagT, RefNone} :
          /\ args' = [op |-> "getRef", ref |-> ref]
          /\ res' = [res EXCEPT !.ref = getRef(files, ref)]
    /\ pc' = "done"
    /\ UNCHANGED <<dirs, files, packs, hist, bs>>

GetHead ==
    /\ pc = "start"
    /\ args' = [op |-> "getHead"]
    /\ res' = [res EXCEPT !.head = getHead(files, packs)]
    /\ pc' = "done"
    /\ UNCHANGED <<dirs, files, packs, hist, bs>>

RefsNext == GetRef \/ GetHead

SpecRefs == RefsInit /\ [][RefsNext]_vars

\* the lines of packed-refs, none when there is no such file
PackedLines(fs) ==
    IF packedRefsPath \in DOMAIN fs THEN SplitLines(BufferToString(fs[packedRefsPath])) ELSE <<>>

\* the lines whose refname is refs/<ref>: they end in a space and refs/<ref>
ExactLines(fs, ref) ==
    {i \in 1..Len(PackedLines(fs)) : EndsWith(PackedLines(fs)[i], <<32>> \o <<114, 101, 102, 115, 47>> \o ref)}

\* the lines that end in the text refs/<ref>
SuffixLines(fs, ref) ==
    {i \in 1..Len(PackedLines(fs)) : EndsWith(PackedLines(fs)[i], <<114, 101, 102, 115, 47>> \o ref)}

\* what resolving refs/<ref> gives: the loose value, else the id of the first line of
\* packed-refs with that refname, else nothing
Resolve(fs, ref) ==
    IF refPath(ref) \in DOMAIN fs
    THEN [st |-> "ok", value |-> Trim(BufferToString(fs[refPath(ref)]))]
    ELSE IF ExactLines(fs, ref) # {}
    THEN [st |-> "ok",
          value |-> FirstWord(PackedLines(fs)[CHOOSE i \in ExactLines(fs, ref) :
                                                 \A j \in ExactLines(fs, ref) : i <= j])]
    ELSE [st |-> "error", error |-> "Ref not found"]

\* C12: getRef returns the trimmed content of the loose file when it exists, whatever
\* packed-refs holds, and fails with "Ref not found" when the ref is neither loose nor
\* in packed-refs, also when there is no packed-refs file.  (Stated for packed-refs
\* without a line that ends in the text refs/<ref>, see C13.)
C12_LooseThenPacked ==
    args.op = "getRef" =>
        /\ refPath(args.ref) \in DOMAIN files =>
              res.ref = [st |-> "ok", value |-> Trim(BufferToString(files[refPath(args.ref)]))]
        /\ (refPath(args.ref) \notin DOMAIN files /\ SuffixLines(files, args.ref) = {}) =>
              (res.ref.st = "error" /\ res.ref.error = "Ref not found")

\* C13: when the loose file is absent and packed-refs exists, getRef returns the id of
\* the line whose refname is refs/<ref>, and fails with "Ref not found" when no line
\* has that refname.
C13_ExactRefname ==
    (args.op = "getRef" /\ refPath(args.ref) \notin DOMAIN files /\ packedRefsPath \in DOMAIN files) =>
        res.ref = Resolve(files, args.ref)

\* HEAD, trimmed
HeadContent == Trim(BufferToString(files[headPath]))

\* the objects of the repository that getObject can read by id
ReadableObjects == {RefCommit, RefBlob, RefTag} \cup (IF packs = <<>> THEN {} ELSE {PackedCommit})

\* C14: HEAD `ref: refs/heads/<name>` gives the branch form with what resolving
\* refs/heads/<name> gives (or the failure of resolving it); HEAD that is the id of a
\* commit gives the detached form with name = commit = the id; HEAD that is the id of
\* an object of another kind, the id of no object, or any other content (the tag form
\* of C15 apart) fails.
C14_HeadForms ==
    args.op = "getHead" =>
        /\ StartsWith(HeadContent, <<114, 101, 102, 58, 32, 114, 101, 102, 115, 47, 104, 101, 97, 100, 115, 47>>) =>
              LET name == SubSeq(HeadContent, 17, Len(HeadContent))
                  r    == getRef(files, <<104, 101, 97, 100, 115, 47>> \o name)
              IN  IF r.st = "ok"
                  THEN res.head = [st |-> "ok", type |-> "branch", name |-> name, commit |-> r.value]
                  ELSE res.head = r
        /\ \A o \in ReadableObjects :
              HeadContent = StringOfSha(OidOf(o)) =>
                  IF o.type = "commit"
                  THEN res.head = [st |-> "ok", type |-> "commit", name |-> HeadContent,
                                   commit |-> HeadContent]
                  ELSE res.head.st = "error"
        /\ (~StartsWith(HeadContent, <<114, 101, 102, 58, 32, 114, 101, 102, 115, 47, 104, 101, 97, 100, 115, 47>>) /\ ~StartsWith(HeadContent, <<114, 101, 102, 58, 32, 114, 101, 102, 115, 47, 116, 97, 103, 115, 47>>)
              /\ \A o \in ReadableObjects : HeadContent # StringOfSha(OidOf(o))) =>
              res.head.st = "error"

\* HEAD was the id of the loose commit and the detached form was returned
C14_Witness ==
    /\ args.op = "getHead"
    /\ HeadContent = StringOfSha(OidOf(RefCommit))
    /\ res.head.st = "ok"
    /\ res.head.type = "commit"
    /\ res.head.commit = HeadContent

\* HEAD named a branch whose value was taken from packed-refs
C14_WitnessBranch ==
    /\ args.op = "getHead"
    /\ refPath(RefMain) \notin DOMAIN files
    /\ res.head.st = "ok"
    /\ res.head.type = "branch"
    /\ res.head.name = <<109>>
    /\ res.head.commit = StringOfSha(OidOf(PackedCommit))

\* HEAD was the id of the blob and getHead failed
C14_WitnessBlob ==
    /\ args.op = "getHead"
    /\ HeadContent = StringOfSha(OidOf(RefBlob))
    /\ res.head.st = "error"
    /\ res.head.error = "HEAD points to invalid object type"

\* C15: HEAD `ref: refs/tags/<name>` with refs/tags/<name> loose or in packed-refs gives
\* kind tag, that name, and the value that resolving refs/tags/<name> gives.
C15_TagHead ==
    (args.op = "getHead" /\ StartsWith(HeadContent, <<114, 101, 102, 58, 32, 114, 101, 102, 115, 47, 116, 97, 103, 115, 47>>)) =>
        LET name == SubSeq(HeadContent, 16, Len(HeadContent))
            r    == Resolve(files, <<116, 97, 103, 115, 47>> \o name)
        IN  r.st = "ok" =>
               res.head = [st |-> "ok", type |-> "tag", name |-> name, commit |-> r.value]

-----------------------------------------------------------------------------
(* staging.ts: parseIndexFile.  The times, dev, ino, uid and gid of an entry are read
   and returned as they are; they decide nothing and are left out of the entries *)

\* buf.readUInt16BE(at)
readUInt16BE(buf, at) == buf[at + 1] * 256 + buf[at + 2]

\* (mode & 0o777).toString(8).padStart(4, '0')
unixPermString(mode) ==
    <<48, 48 + ((mode \div 64) % 8), 48 + ((mode \div 8) % 8), 48 + (mode % 8)>>

\* the type of an entry from `mode >> 12`, or undefined
entryType(binType) ==
    IF binType = 8 THEN "file" ELSE IF binType = 10 THEN "symlink"
    ELSE IF binType = 14 THEN "gitlink" ELSE "undefined"

\* one iteration of the loop over the entries: the entry at entryStart and the start of
\* the next one, or the error thrown
parseIndexEntry(buf, version, entryStart) ==
    LET entry == Slice(buf, entryStart, Len(buf))
    IN  IF Len(entry) < 28 THEN [st |-> "error", error |-> "ERR_OUT_OF_RANGE"]
        ELSE LET mode     == readUInt32BE(entry, 24)
                 type     == entryType(mode \div 4096)
                 unixPerm == unixPermString(mode % 512)
             IN  IF type = "undefined"
                 THEN [st |-> "error", error |-> "Unsupported index entry type"]
                 ELSE IF unixPerm # <<48, 55, 53, 53>> /\ unixPerm # <<48, 54, 52, 52>>
                 THEN [st |-> "error", error |-> "Unsupported permission of index entry"]
                 ELSE IF Len(entry) < 62 THEN [st |-> "error", error |-> "ERR_OUT_OF_RANGE"]
                 ELSE LET flags        == readUInt16BE(entry, 60)
                          extendedFlag == (flags \div 16384) % 2
                          nameLength   == flags % 4096
                          nameStart    == IF version > 2 /\ extendedFlag # 0 THEN 64 ELSE 62
                          nameBuf      == Slice(entry, nameStart, Len(entry))
                          nameEnd      == IndexOf(nameBuf, 0, 0)
                          name         == IF nameLength = 4095
                                          THEN (IF nameEnd = -1
                                                THEN SubSeq(nameBuf, 1, Len(nameBuf) - 1)
                                                ELSE Slice(nameBuf, 0, nameEnd))
                                          ELSE Slice(entry, nameStart, nameStart + nameLength)
                          padding      == 8 - ((nameStart + nameLength) % 8)
                      IN  [st |-> "ok",
                           entry |-> [name |-> BufferToString(name),
                                      sha |-> Hex(Slice(entry, 40, 60)),
                                      type |-> type,
                                      fileSize |-> readUInt32BE(entry, 36),
                                      unixPerm |-> unixPerm,
                                      assumeValidFlag |-> (flags \div 32768) % 2 # 0,
                                      stage |-> ((flags \div 4096) % 4) * 4096],
                           next |-> entryStart + nameStart + nameLength + padding]

\* the loop over the entries: the entries, where each one started, and where the
\* extensions start; or the error thrown
RECURSIVE parseIndexEntries(_, _, _, _, _, _)
parseIndexEntries(buf, version, entriesCount, entryStart, entries, starts) ==
    IF Len(entries) >= entriesCount
    THEN [st |-> "ok", entries |-> entries, starts |-> starts, entryStart |-> entryStart]
    ELSE LET e == parseIndexEntry(buf, version, entryStart)
         IN  IF e.st # "ok" THEN e
             ELSE parseIndexEntries(buf, version, entriesCount, e.next,
                                    Append(entries, e.entry), Append(starts, entryStart))

\* buf.subarray(from, to) with the index rules of JavaScript: a negative index counts
\* from the end, both are clamped to the buffer, an end before the start gives nothing
Subarray(buf, from, to) ==
    LET clamp(i) == IF i < 0 THEN (IF Len(buf) + i < 0 THEN 0 ELSE Len(buf) + i)
                    ELSE IF i > Len(buf) THEN Len(buf) ELSE i
    IN  SubSeq(buf, clamp(from) + 1, clamp(to))

\* the value of the decimal digits at positions i.. of the string, and how many there are
RECURSIVE Digits(_, _, _, _)
Digits(str, i, value, count) ==
    IF i > Len(str) \/ str[i] \notin 48..57 THEN [value |-> value, count |-> count]
    ELSE Digits(str, i + 1, value * 10 + (str[i] - 48), count + 1)

\* parseInt(str): white space, an optional sign, decimal digits; NaN without a digit
parseInt(str) ==
    LET body  == {i \in 1..Len(str) : str[i] \notin WhiteSpace}
        first == IF body = {} THEN Len(str) + 1 ELSE CHOOSE i \in body : \A j \in body : i <= j
        sign  == first <= Len(str) /\ str[first] \in {43, 45}
        d     == Digits(str, IF sign THEN first + 1 ELSE first, 0, 0)
    IN  IF d.count = 0 THEN [nan |-> TRUE, value |-> 0]
        ELSE [nan |-> FALSE, value |-> IF sign /\ str[first] = 45 THEN 0 - d.value ELSE d.value]

\* buf.toString('ascii')
AsciiString(buf) == [i \in 1..Len(buf) |-> buf[i] % 128]

\* the loop of parseTreeExtensionData: the entries it collects, or the error thrown, or
\* "hang" when an iteration leaves entryStart where it was
RECURSIVE parseTreeEntries(_, _, _)
parseTreeEntries(extension, entryStart, entries) ==
    IF ~(entryStart < Len(extension) - 5) THEN [st |-> "ok", entries |-> entries]
    ELSE LET entry        == Subarray(extension, entryStart, Len(extension))
             path         == BufferToString(Subarray(entry, 0, IndexOf(entry, 0, 0)))
             spaceIndex   == IndexOf(entry, 32, 0)
             entryCount   == parseInt(AsciiString(Subarray(entry, Len(path) + 1, spaceIndex)))
             newLineIndex == IndexOf(entry, 10, 0)
             subTreeCount == parseInt(AsciiString(Subarray(entry, spaceIndex + 1, newLineIndex)))
         IN  IF entryCount.nan
             THEN [st |-> "error", error |-> "Invalid entry count in tree extension"]
             ELSE IF entryCount.value = -1
             THEN (IF newLineIndex + 1 = 0 THEN [st |-> "hang"]
                   ELSE parseTreeEntries(extension, entryStart + newLineIndex + 1, entries))
             ELSE IF subTreeCount.nan
             THEN [st |-> "error", error |-> "Invalid sub tree count in tree extension"]
             ELSE parseTreeEntries(extension, entryStart + newLineIndex + 21,
                     Append(entries, [path |-> path,
                                      sha |-> Hex(Subarray(entry, newLineIndex + 1, newLineIndex + 21)),
                                      entryCount |-> entryCount.value,
                                      subTreeCount |-> subTreeCount.value]))

\* parseTreeExtensionData: the root entry, or the error thrown
parseTreeExtensionData(extension) ==
    LET r == parseTreeEntries(extension, 0, <<>>)
    IN  IF r.st # "ok" THEN r
        ELSE IF Len(r.entries) = 0
        THEN [st |-> "error", error |-> "No entries found in tree extension"]
        ELSE IF r.entries[1].path # <<>>
        THEN [st |-> "error", error |-> "First entry in tree extension is not the root"]
        ELSE [st |-> "ok", entry |-> r.entries[1]]

\* the loop over the extensions: the tree extension (undefined without one), the number
\* of iterations and the signatures warned about; or the error thrown
RECURSIVE parseExtensions(_, _, _, _, _)
parseExtensions(buf, extensionStart, treeExtension, count, warned) ==
    IF ~(extensionStart < Len(buf) - 20)
    THEN [st |-> "ok", treeExtension |-> treeExtension, count |-> count, warned |-> warned]
    ELSE LET extensionSignature == BufferToString(Subarray(buf, extensionStart, extensionStart + 4))
             extensionLength    == readUInt32BE(buf, extensionStart + 4)
         IN  IF extensionSignature = <<84, 82, 69, 69>>
             THEN LET t == parseTreeExtensionData(
                              Subarray(buf, extensionStart + 8, extensionStart + 8 + extensionLength))
                  IN  IF t.st # "ok" THEN t
                      ELSE parseExtensions(buf, extensionStart + 8 + extensionLength,
                                           [st |-> "ok", entry |-> t.entry], count + 1, warned)
             ELSE parseExtensions(buf, extensionStart + 8 + extensionLength, treeExtension,
                                  count + 1, Append(warned, extensionSignature))

\* parseIndexFile on the bytes of the index: the entries and the tree extension, or the
\* error thrown; `starts` is where each entry was read
parseIndexFile(buf) ==
    IF BufferToString(Subarray(buf, 0, 4)) # <<68, 73, 82, 67>>
    THEN [st |-> "error", error |-> "Invalid index file. Header does not starts with DIRC"]
    ELSE IF Len(buf) < 8 THEN [st |-> "error", error |-> "ERR_OUT_OF_RANGE"]
    ELSE IF readUInt32BE(buf, 4) # 2 /\ readUInt32BE(buf, 4) # 3
    THEN [st |-> "error",
          error |-> "Unsupported index file version. Only version 2 and 3 are supported"]
    ELSE IF Len(buf) < 12 THEN [st |-> "error", error |-> "ERR_OUT_OF_RANGE"]
    ELSE LET e == parseIndexEntries(buf, readUInt32BE(buf, 4), readUInt32BE(buf, 8), 12, <<>>, <<>>)
         IN  IF e.st # "ok" THEN e
             ELSE LET x == parseExtensions(buf, e.entryStart, [st |-> "undefined"], 0, <<>>)
                  IN  IF x.st # "ok" THEN x
                      ELSE [st |-> "ok", entries |-> e.entries, treeExtension |-> x.treeExtension,
                            starts |-> e.starts, extensionStart |-> e.entryStart,
                            warned |-> x.warned]

-----------------------------------------------------------------------------
(* SpecIndex: parseIndexFile on the index file of a repository.  The file is laid out as
   git writes it: "DIRC", the version, the number of entries, the entries in the order of
   their names, each padded with 1..8 NULs to a multiple of eight bytes, the extensions
   and the digest of all that *)

MaxEntries == 2

MaxNameLength == 4099

Zeros(n) == [i \in 1..n |-> 0]

\* an entry to be: the byte its name is made of and the length of the name, the type
\* nibble and the permission bits of its mode, the extended bit, the stage, assume-valid
IndexEntry(char, len, nibble, perm, extended, stage, valid) ==
    [char |-> char, len |-> len, nibble |-> nibble, perm |-> perm,
     extended |-> extended, stage |-> stage, valid |-> valid]

\* regular files 0644 and 0755, with a name of 4095 bytes and a longer one, with the
\* extended bit, of stage 2 and assume-valid; a symbolic link (0120000) and a gitlink
\* (0160000) as git writes them; a directory nibble; a regular file 0600; a symbolic
\* link 0644 and a gitlink 0755
EntryPool ==
    << IndexEntry(97, 1, 8, 420, FALSE, 0, FALSE),
       IndexEntry(98, 2, 8, 493, FALSE, 2, TRUE),
       IndexEntry(99, 4095, 8, 420, FALSE, 0, FALSE),
       IndexEntry(100, MaxNameLength, 8, 420, FALSE, 0, FALSE),
       IndexEntry(101, 3, 8, 420, TRUE, 0, FALSE),
       IndexEntry(102, 10, 10, 0, FALSE, 0, FALSE),
       IndexEntry(103, 10, 14, 0, FALSE, 0, FALSE),
       IndexEntry(104, 5, 4, 0, FALSE, 0, FALSE),
       IndexEntry(105, 5, 8, 384, FALSE, 0, FALSE),
       IndexEntry(106, 6, 10, 420, FALSE, 0, FALSE),
       IndexEntry(107, 7, 14, 493, FALSE, 0, FALSE) >>

EntryName(d) == [i \in 1..d.len |-> d.char]

EntrySha(d) == [i \in 1..sha1Length |-> d.char]

\* version 3 is the one that has the extended bit and the two bytes after the flags
IsExtended(d, version) == d.extended /\ version = 3

NameStartOf(d, version) == IF IsExtended(d, version) THEN 64 ELSE 62

\* 1..8 NULs after the name: the entry is a multiple of eight bytes long
PadOf(d, version) == 8 - ((NameStartOf(d, version) + d.len) % 8)

EntryFlags(d, version) ==
    (IF d.valid THEN 32768 ELSE 0) + (IF IsExtended(d, version) THEN 16384 ELSE 0)
        + d.stage * 4096 + (IF d.len < 4095 THEN d.len ELSE 4095)

IndexEntryBytes(d, version) ==
    Zeros(24) \o UInt32BE(d.nibble * 4096 + d.perm) \o Zeros(8) \o UInt32BE(d.len)
        \o EntrySha(d)
        \o <<EntryFlags(d, version) \div 256, EntryFlags(d, version) % 256>>
        \o (IF IsExtended(d, version) THEN Zeros(2) ELSE <<>>)
        \o EntryName(d) \o Zeros(PadOf(d, version))

RECURSIVE IndexEntriesBytes(_, _)
IndexEntriesBytes(ds, version) ==
    IF ds = <<>> THEN <<>>
    ELSE IndexEntryBytes(ds[1], version) \o IndexEntriesBytes(Tail(ds), version)

\* the cache tree of a repository without subdirectories: the root, valid
TreeExtensionData(n) == <<0>> \o Decimal(n) \o <<32, 48, 10>> \o [i \in 1..sha1Length |-> 171]

\* the cache tree after a change in the directory d: the root is valid, d is invalidated
\* (entry count -1, no id)
TreeExtensionSubInvalid(n) ==
    <<0>> \o Decimal(n) \o <<32, 49, 10>> \o [i \in 1..sha1Length |-> 171]
        \o <<100, 0, 45, 49, 32, 48, 10>>

\* the cache tree after a change in the top directory: the root is invalidated, its
\* subtree d is valid
TreeExtensionRootInvalid == <<0, 45, 49, 32, 49, 10>> \o <<100, 0, 49, 32, 48, 10>> \o [i \in 1..sha1Length |-> 171]

\* a cache tree cut short: an invalidated entry whose line has no line feed
TreeExtensionNoLineFeed == <<0, 45, 49, 32, 48, 48, 48, 48>>

ExtensionData(ext, n) ==
    CASE ext = "tree"            -> TreeExtensionData(n)
      [] ext = "treeSubInvalid"  -> TreeExtensionSubInvalid(n)
      [] ext = "treeRootInvalid" -> TreeExtensionRootInvalid
      [] ext = "treeNoLineFeed"  -> TreeExtensionNoLineFeed

ExtensionBytes(ext, n) ==
    CASE ext = "none"    -> <<>>
      [] ext = "unknown" -> <<82, 69, 85, 67>> \o UInt32BE(4) \o <<1, 2, 3, 4>>
      [] OTHER           -> <<84, 82, 69, 69>> \o UInt32BE(Len(ExtensionData(ext, n))) \o ExtensionData(ext, n)

IndexFile(header, version, ds, ext) ==
    LET body == header \o UInt32BE(version) \o UInt32BE(Len(ds))
                    \o IndexEntriesBytes(ds, version) \o ExtensionBytes(ext, Len(ds))
    IN  body \o DigestBytes(body)

indexPath == [dir |-> <<>>, name |-> <<105, 110, 100, 101, 120>>]

\* the entries of an index: entries of the pool, in the order of their names
EntryLists ==
    {[i \in 1..Len(s) |-> EntryPool[s[i]]] :
        s \in {t \in UNION {[1..n -> 1..Len(EntryPool)] : n \in 0..MaxEntries} :
                  \A i \in 1..(Len(t) - 1) : t[i] < t[i + 1]}}

\* versions 2 and 3 with each choice of extensions; versions 1 and 4; another header
IndexShapes ==
    [header : {<<68, 73, 82, 67>>}, version : {2, 3}, ext : {"none", "unknown", "tree"}]
        \cup [header : {<<68, 73, 82, 67>>}, version : {1, 4}, ext : {"none"}]
        \cup [header : {<<68, 73, 82, 75>>}, version : {2}, ext : {"none"}]

IndexInit ==
    /\ \E shape \in IndexShapes, ds \in EntryLists :
          /\ args = [op |-> "none", header |-> shape.header, version |-> shape.version,
                     ext |-> shape.ext, entries |-> ds]
          /\ files = [q \in {indexPath} |-> IndexFile(shape.header, shape.version, ds, shape.ext)]
    /\ packs = <<>>
    /\ dirs = {}
    /\ res = [index |-> NoRes]
    /\ hist = {}
    /\ pc = "start"
    /\ bs = NoSearch

\* getIndex: read the index file and parse it
ParseIndexFile ==
    /\ pc = "start"
    /\ args' = [args EXCEPT !.op = "parseIndexFile"]
    /\ res' = [res EXCEPT !.index = parseIndexFile(files[indexPath])]
    /\ pc' = "done"
    /\ UNCHANGED <<dirs, files, packs, hist, bs>>

IndexNext == ParseIndexFile

SpecIndex == IndexInit /\ [][IndexNext]_vars

\* the index files whose header and version parseIndexFile supports and whose entries
\* all have a type and a permission it supports
SupportedEntry(d) == d.nibble \in {8, 10, 14} /\ d.perm \in {420, 493}

SupportedIndex ==
    /\ args.header = <<68, 73, 82, 67>>
    /\ args.version \in {2, 3}
    /\ \A k \in 1..Len(args.entries) : SupportedEntry(args.entries[k])

\* where the parser went after entry k: to the next entry, after the last one to the
\* extensions
StartAfter(r, k) == IF k < Len(r.starts) THEN r.starts[k + 1] ELSE r.extensionStart

\* C16: for every entry of a supported index the parser places the next entry at
\* entry_start + name_start + L + pad, with L the length of the entry's name in bytes
\* and pad in 1..8 making the entry a multiple of eight bytes (name_start 62, or 64 for
\* an extended entry of version 3; also for names of 0xFFF bytes and more, which are
\* read up to their NUL), so that each of the N entries is decoded with its own name
C16_NextEntryStart ==
    (pc = "done" /\ SupportedIndex) =>
        /\ res.index.st = "ok"
        /\ Len(res.index.starts) = Len(args.entries)
        /\ \A k \in 1..Len(args.entries) :
              LET d == args.entries[k]
              IN  /\ StartAfter(res.index, k)
                        = res.index.starts[k] + NameStartOf(d, args.version) + d.len
                              + PadOf(d, args.version)
                  /\ res.index.entries[k].name = BufferToString(EntryName(d))

\* C17: parseIndexFile fails, returning no entries, when the header is not DIRC, when
\* the version is neither 2 nor 3, or when an entry has a type nibble other than
\* 1000/1010/1110 or permission bits other than 0644/0755; otherwise it returns exactly
\* the N entries of the file, in the order they have in the file
C17_FailsOrAllEntries ==
    pc = "done" =>
        /\ (args.header # <<68, 73, 82, 67>> \/ args.version \notin {2, 3}
                \/ \E k \in 1..Len(args.entries) : ~SupportedEntry(args.entries[k]))
              => res.index.st = "error"
        /\ SupportedIndex =>
              /\ res.index.st = "ok"
              /\ Len(res.index.entries) = Len(args.entries)
              /\ \A k \in 1..Len(args.entries) :
                    /\ res.index.entries[k].name = BufferToString(EntryName(args.entries[k]))
                    /\ res.index.entries[k].sha = Hex(EntrySha(args.entries[k]))

-----------------------------------------------------------------------------
(* object.ts: parseTree and getTree; status.ts: getAllTreeObjects, getWorkingDirStatus *)

\* buf.indexOf(value, byteOffset): a negative offset counts from the end of the buffer
BufferIndexOf(buf, v, byteOffset) ==
    IndexOf(buf, v, IF byteOffset < 0 THEN Len(buf) + byteOffset ELSE byteOffset)

\* the loop of parseTree going on right after the NUL, as if no id followed the name
RECURSIVE parseTreeLoopNoId(_, _, _)
parseTreeLoopNoId(content, offset, entries) ==
    IF ~(offset < Len(content)) THEN [st |-> "ok", entries |-> entries]
    ELSE LET spacePos == BufferIndexOf(content, 32, offset)
             nullPos  == BufferIndexOf(content, 0, spacePos)
         IN  IF nullPos = -1 THEN [st |-> "error", error |-> "Tree entry is malformed"]
             ELSE parseTreeLoopNoId(content, nullPos + 1,
                     Append(entries,
                            [mode |-> parseInt(BufferToString(Subarray(content, offset, spacePos))),
                             name |-> BufferToString(Subarray(content, spacePos + 1, nullPos)),
                             sha  |-> Hex(Subarray(content, nullPos + 1, nullPos + 21))]))

\* the loop of parseTree; the mode of an entry is what parseInt makes of its text
RECURSIVE parseTreeLoop(_, _, _)
parseTreeLoop(content, offset, entries) ==
    IF ~(offset < Len(content)) THEN [st |-> "ok", entries |-> entries]
    ELSE LET spacePos == BufferIndexOf(content, 32, offset)
             nullPos  == BufferIndexOf(content, 0, spacePos)
         IN  IF nullPos = -1 THEN [st |-> "error", error |-> "Tree entry is malformed"]
             ELSE parseTreeLoop(content, nullPos + 21,
                     Append(entries,
                            [mode |-> parseInt(BufferToString(Subarray(content, offset, spacePos))),
                             name |-> BufferToString(Subarray(content, spacePos + 1, nullPos)),
                             sha  |-> Hex(Subarray(content, nullPos + 1, nullPos + 21))]))

\* parseTree on what getObject returned (its failure is the failure of getTree)
parseTree(treeObj) ==
    IF treeObj.st # "ok" THEN treeObj
    ELSE IF treeObj.type # TypeName("tree") THEN [st |-> "error", error |-> "Object is not a tree"]
    ELSE LET r == parseTreeLoop(treeObj.content, 0, <<>>)
         IN  IF r.st # "ok" THEN r ELSE [st |-> "ok", sha |-> treeObj.sha, entries |-> r.entries]

getTree(fs, packFiles, sha) == parseTree(getObject(fs, packFiles, sha))

\* `entry.mode === 40000`
isSubTree(entry) == ~entry.mode.nan /\ entry.mode.value = 40000

\* getAllTreeObjects without the path of the subtree in the names it pushes
RECURSIVE getAllTreeObjectsNoPath(_, _, _, _, _, _)
getAllTreeObjectsNoPath(fs, packFiles, entries, i, result, path) ==
    IF i > Len(entries) THEN [st |-> "ok", result |-> result]
    ELSE IF isSubTree(entries[i])
    THEN LET sub == getTree(fs, packFiles, entries[i].sha)
         IN  IF sub.st # "ok" THEN sub
             ELSE LET r == getAllTreeObjectsNoPath(fs, packFiles, sub.entries, 1, result, path)
                  IN  IF r.st # "ok" THEN r
                      ELSE getAllTreeObjectsNoPath(fs, packFiles, entries, i + 1, r.result, path)
    ELSE getAllTreeObjectsNoPath(fs, packFiles, entries, i + 1,
                                 Append(result, [mode |-> entries[i].mode,
                                                 name |-> entries[i].name,
                                                 sha  |-> entries[i].sha]),
                                 path)

\* getAllTreeObjects from the i-th entry of a tree on: the entries pushed to `result`,
\* or the error of a subtree that cannot be read
RECURSIVE getAllTreeObjects(_, _, _, _, _, _)
getAllTreeObjects(fs, packFiles, entries, i, result, path) ==
    IF i > Len(entries) THEN [st |-> "ok", result |-> result]
    ELSE IF isSubTree(entries[i])
    THEN LET sub == getTree(fs, packFiles, entries[i].sha)
         IN  IF sub.st # "ok" THEN sub
             ELSE LET r == getAllTreeObjects(fs, packFiles, sub.entries, 1, result,
                                             path \o entries[i].name \o <<47>>)
                  IN  IF r.st # "ok" THEN r
                      ELSE getAllTreeObjects(fs, packFiles, entries, i + 1, r.result, path)
    ELSE getAllTreeObjects(fs, packFiles, entries, i + 1,
                           Append(result, [mode |-> entries[i].mode,
                                           name |-> path \o entries[i].name,
                                           sha  |-> entries[i].sha]),
                           path)

\* treeEntries.find((treeEntry) => treeEntry.name === name)
FindTreeEntry(treeEntries, name) ==
    LET hits == {j \in 1..Len(treeEntries) : treeEntries[j].name = name}
    IN  IF hits = {} THEN [st |-> "undefined"]
        ELSE [st |-> "ok", entry |-> treeEntries[CHOOSE j \in hits : \A h \in hits : j <= h]]

\* the loop over index.entries of getWorkingDirStatus
RECURSIVE StatusLoop(_, _, _, _)
StatusLoop(indexEntries, treeEntries, i, changes) ==
    IF i > Len(indexEntries) THEN changes
    ELSE LET entry    == indexEntries[i]
             existing == FindTreeEntry(treeEntries, entry.name)
         IN  IF existing.st = "undefined" \/ existing.entry.sha # entry.sha
             THEN StatusLoop(indexEntries, treeEntries, i + 1,
                     Append(changes,
                            [name |-> entry.name, hash |-> entry.sha, status |-> "staged",
                             stagingStatus |-> IF existing.st = "undefined" THEN "added"
                                               ELSE "modified"]))
             ELSE StatusLoop(indexEntries, treeEntries, i + 1, changes)

getWorkingDirStatus(fs, packFiles, index, rootTree) ==
    LET t == getAllTreeObjects(fs, packFiles, rootTree.entries, 1, <<>>, <<>>)
    IN  IF t.st # "ok" THEN t
        ELSE [st |-> "ok", changes |-> StatusLoop(index.entries, t.result, 1, <<>>),
              treeEntries |-> t.result]

-----------------------------------------------------------------------------
(* SpecStatus: getWorkingDirStatus for an index and the root tree of a commit, whose
   trees and blobs are loose objects of the repository *)

MaxIndexEntries == 2

BlobA == Obj("blob", <<97>>)

BlobB == Obj("blob", <<98>>)

\* the bytes of an id
BytesOfSha(sha) == [i \in 1..(Len(sha) \div 2) |-> sha[2 * i - 1] * 16 + sha[2 * i]]

\* an entry of a tree to be: its mode as git writes it, its name, its object
TreeEntry(mode, name, obj) == [mode |-> mode, name |-> name, obj |-> obj]

\* the payload of a tree object: for each entry the mode, a space, the name, NUL, the id
RECURSIVE TreePayload(_)
TreePayload(es) ==
    IF es = <<>> THEN <<>>
    ELSE es[1].mode \o <<32>> \o es[1].name \o <<0>> \o BytesOfSha(OidOf(es[1].obj))
            \o TreePayload(Tail(es))

TreeObj(es) == Obj("tree", TreePayload(es))

\* d: the files a and c;  e: the directory d
SubTreeD == <<TreeEntry(<<49, 48, 48, 54, 52, 52>>, <<97>>, BlobA), TreeEntry(<<49, 48, 48, 55, 53, 53>>, <<99>>, BlobB)>>

SubTreeE == <<TreeEntry(<<52, 48, 48, 48, 48>>, <<100>>, TreeObj(SubTreeD))>>

\* what a root tree is made of: the files a and b, the directories d and e, a gitlink g
RootPool ==
    << TreeEntry(<<49, 48, 48, 54, 52, 52>>, <<97>>, BlobA),
       TreeEntry(<<49, 48, 48, 54, 52, 52>>, <<98>>, BlobB),
       TreeEntry(<<52, 48, 48, 48, 48>>, <<100>>, TreeObj(SubTreeD)),
       TreeEntry(<<52, 48, 48, 48, 48>>, <<101>>, TreeObj(SubTreeE)),
       TreeEntry(<<49, 54, 48, 48, 48, 48>>, <<103>>, BlobB) >>

\* the subtrees of a tree to be, by the name of the entry; none for other entries
SubTreeOf(e) ==
    IF e.mode # <<52, 48, 48, 48, 48>> THEN <<>>
    ELSE IF e.name = <<100>> THEN SubTreeD ELSE SubTreeE

\* root trees: the empty one, files only, files and directories, everything
RootTrees ==
    {[i \in 1..Len(s) |-> RootPool[s[i]]] :
        s \in {<<>>, <<1>>, <<1, 2>>, <<1, 3>>, <<2, 3, 4>>, <<1, 2, 3, 4, 5>>}}

\* the entries of the index, as parseIndexFile returns them: name and id
StagedEntry(name, obj) == [name |-> name, sha |-> OidOf(obj)]

StagedPool ==
    << StagedEntry(<<97>>, BlobA),
       StagedEntry(<<97>>, BlobB),
       StagedEntry(<<98>>, BlobB),
       StagedEntry(<<100>>, TreeObj(SubTreeD)),
       StagedEntry(<<100, 47, 97>>, BlobA),
       StagedEntry(<<100, 47, 97>>, BlobB),
       StagedEntry(<<100, 47, 99>>, BlobB),
       StagedEntry(<<101, 47, 100, 47, 97>>, BlobA),
       StagedEntry(<<103>>, BlobB),
       StagedEntry(<<122>>, BlobA) >>

\* the index: entries in the order of their names, no name twice
StagedLists ==
    {[i \in 1..Len(s) |-> StagedPool[s[i]]] :
        s \in {t \in UNION {[1..n -> 1..Len(StagedPool)] : n \in 0..MaxIndexEntries} :
                  \A i \in 1..(Len(t) - 1) :
                      t[i] < t[i + 1] /\ StagedPool[t[i]].name # StagedPool[t[i + 1]].name}}

StatusInit ==
    /\ \E root \in RootTrees, staged \in StagedLists :
          args = [op |-> "none", root |-> root, index |-> [entries |-> staged]]
    /\ files = LooseFiles({BlobA, BlobB, TreeObj(SubTreeD), TreeObj(SubTreeE), TreeObj(args.root)})
    /\ packs = <<>>
    /\ dirs = {}
    /\ res = [status |-> NoRes]
    /\ hist = {}
    /\ pc = "start"
    /\ bs = NoSearch

\* the status command: the root tree of the commit is read, then the status computed
GetWorkingDirStatus ==
    /\ pc = "start"
    /\ LET rootTree == getTree(files, packs, OidOf(TreeObj(args.root)))
       IN  res' = [res EXCEPT !.status =
                      IF rootTree.st # "ok" THEN rootTree
                      ELSE getWorkingDirStatus(files, packs, args.index, rootTree)]
    /\ args' = [args EXCEPT !.op = "getWorkingDirStatus"]
    /\ pc' = "done"
    /\ UNCHANGED <<dirs, files, packs, hist, bs>>

StatusNext == GetWorkingDirStatus

SpecStatus == StatusInit /\ [][StatusNext]_vars

\* the files of a tree to be and of its subtrees: path and id, the names of the
\* directories on the way joined with "/"
RECURSIVE FlatFiles(_, _)
FlatFiles(es, path) ==
    IF es = <<>> THEN {}
    ELSE (IF SubTreeOf(es[1]) # <<>> THEN FlatFiles(SubTreeOf(es[1]), path \o es[1].name \o <<47>>)
          ELSE {[name |-> path \o es[1].name, sha |-> OidOf(es[1].obj)]})
         \cup FlatFiles(Tail(es), path)

\* the record of an index entry against the files of the tree, none for an entry whose
\* path and id are there
ExpectedRecord(entry, flat) ==
    IF \A f \in flat : f.name # entry.name
    THEN <<[name |-> entry.name, hash |-> entry.sha, status |-> "staged", stagingStatus |-> "added"]>>
    ELSE IF \E f \in flat : f.name = entry.name /\ f.sha # entry.sha
    THEN <<[name |-> entry.name, hash |-> entry.sha, status |-> "staged", stagingStatus |-> "modified"]>>
    ELSE <<>>

RECURSIVE ExpectedRecords(_, _)
ExpectedRecords(entries, flat) ==
    IF entries = <<>> THEN <<>>
    ELSE ExpectedRecord(entries[1], flat) \o ExpectedRecords(Tail(entries), flat)

\* C18: getWorkingDirStatus returns, in the order of the index, one record for each
\* index entry whose path is not in the flattened root tree (staged, added) or is there
\* with another id (staged, modified), none for an entry whose path and id match, and
\* nothing else; the flattened tree has every entry that is not a subtree under the
\* names of its directories joined with "/", and no subtree
C18_StagedRecords ==
    pc = "done" =>
        /\ res.status.st = "ok"
        /\ res.status.changes = ExpectedRecords(args.index.entries, FlatFiles(args.root, <<>>))
        /\ {[name |-> res.status.treeEntries[j].name, sha |-> res.status.treeEntries[j].sha] :
               j \in 1..Len(res.status.treeEntries)} = FlatFiles(args.root, <<>>)
        /\ Len(res.status.treeEntries) = Cardinality(FlatFiles(args.root, <<>>))

\* an index with a/unchanged and d/a changed, against a tree with the directory d:
\* the one record is that of d/a, modified
C18_Witness ==
    /\ pc = "done"
    /\ Len(args.index.entries) = 2
    /\ args.index.entries[1] = StagedEntry(<<97>>, BlobA)
    /\ res.status.st = "ok"
    /\ Len(res.status.changes) = 1
    /\ res.status.changes[1].name = <<100, 47, 97>>
    /\ res.status.changes[1].stagingStatus = "modified"

\* an entry named as a directory of the tree, and an entry of no tree: both added
C18_WitnessAdded ==
    /\ pc = "done"
    /\ Len(args.root) = 5
    /\ res.status.st = "ok"
    /\ Len(res.status.changes) = 2
    /\ res.status.changes[1].name = <<100>>
    /\ res.status.changes[1].stagingStatus = "added"
    /\ res.status.changes[2].name = <<122>>
    /\ res.status.changes[2].stagingStatus = "added"

-----------------------------------------------------------------------------
(* object.ts: parseUserDateLine, parseCommit, parseTag *)

\* str.split(sep) for a separator of one character
RECURSIVE Split(_, _)
Split(str, sep) ==
    IF IndexOf(str, sep, 0) = -1 THEN <<str>>
    ELSE <<Slice(str, 0, IndexOf(str, sep, 0))>>
            \o Split(Slice(str, IndexOf(str, sep, 0) + 1, Len(str)), sep)

\* parts.join(sep)
RECURSIVE Join(_, _)
Join(parts, sep) ==
    IF parts = <<>> THEN <<>>
    ELSE IF Len(parts) = 1 THEN parts[1]
    ELSE parts[1] \o sep \o Join(Tail(parts), sep)

\* lines.find((line) => line.startsWith(prefix)): the line, or undefined
FindStartsWith(lines, prefix) ==
    LET hits == {i \in 1..Len(lines) : StartsWith(lines[i], prefix)}
    IN  IF hits = {} THEN [st |-> "undefined"]
        ELSE [st |-> "ok", line |-> lines[CHOOSE i \in hits : \A j \in hits : i <= j]]

\* line.split(' ')[1], or undefined
WordAfterSpace(line) ==
    IF Len(Split(line, 32)) < 2 THEN [st |-> "undefined"]
    ELSE [st |-> "ok", value |-> Split(line, 32)[2]]

\* lines.find((line) => line.startsWith(prefix))?.split(' ')[1]
FieldOf(lines, prefix) ==
    IF FindStartsWith(lines, prefix).st = "undefined" THEN [st |-> "undefined"]
    ELSE WordAfterSpace(FindStartsWith(lines, prefix).line)

\* lines.slice(lines.findIndex((line) => line === '') + 1).join('\n')
MessageOf(lines) ==
    LET blank == {i \in 1..Len(lines) : lines[i] = <<>>}
        messageStart == IF blank = {} THEN 0 ELSE CHOOSE i \in blank : \A j \in blank : i <= j
    IN  Join(SubSeq(lines, messageStart + 1, Len(lines)), <<10>>)

\* parseUserDateLine; the date is kept as the time stamp that parseInt read
parseUserDateLine(line) ==
    LET parts == Split(line, 32)
        user  == SubSeq(parts, 2, Len(parts) - 2)
    IN  IF user = <<>> THEN [st |-> "error", error |-> "Commit does not have an email"]
        ELSE [st |-> "ok",
              date  |-> parseInt(parts[Len(parts) - 1]),
              name  |-> Join(SubSeq(user, 1, Len(user) - 1), <<32>>),
              email |-> SubSeq(user[Len(user)], 2, Len(user[Len(user)]) - 1)]

\* lines.filter((line) => line.startsWith('parent')).map((line) => line.split(' ')[1])
RECURSIVE ParentsOf(_)
ParentsOf(lines) ==
    IF lines = <<>> THEN <<>>
    ELSE (IF StartsWith(lines[1], <<112, 97, 114, 101, 110, 116>>) THEN <<WordAfterSpace(lines[1])>> ELSE <<>>)
            \o ParentsOf(Tail(lines))

parseCommit(commitObj) ==
    IF commitObj.type # TypeName("commit") THEN [st |-> "error", error |-> "Object is not a commit"]
    ELSE LET lines == SplitLines(BufferToString(commitObj.content))
             tree  == FieldOf(lines, <<116, 114, 101, 101>>)
             authorLine    == FindStartsWith(lines, <<97, 117, 116, 104, 111, 114>>)
             committerLine == FindStartsWith(lines, <<99, 111, 109, 109, 105, 116, 116, 101, 114>>)
         IN  IF tree.st = "undefined"
             THEN [st |-> "error", error |-> "Commit does not have a tree"]
             ELSE IF authorLine.st = "undefined"
             THEN [st |-> "error", error |-> "Commit does not have an author"]
             ELSE IF committerLine.st = "undefined"
             THEN [st |-> "error", error |-> "Commit does not have a committer"]
             ELSE IF parseUserDateLine(authorLine.line).st # "ok"
             THEN parseUserDateLine(authorLine.line)
             ELSE IF parseUserDateLine(committerLine.line).st # "ok"
             THEN parseUserDateLine(committerLine.line)
             ELSE [st |-> "ok", sha |-> commitObj.sha, tree |-> tree.value,
                   parents |-> ParentsOf(lines), message |-> MessageOf(lines),
                   author |-> parseUserDateLine(authorLine.line),
                   committer |-> parseUserDateLine(committerLine.line)]

parseTag(tagObj) ==
    IF tagObj.type # TypeName("tag") THEN [st |-> "error", error |-> "Object is not a tag"]
    ELSE LET lines  == SplitLines(BufferToString(tagObj.content))
             object == FieldOf(lines, <<111, 98, 106, 101, 99, 116>>)
             type   == FieldOf(lines, <<116, 121, 112, 101>>)
             tag    == FieldOf(lines, <<116, 97, 103>>)
             taggerLine == FindStartsWith(lines, <<116, 97, 103, 103, 101, 114>>)
         IN  IF object.st = "undefined"
             THEN [st |-> "error", error |-> "Tag does not have an object"]
             ELSE IF type.st = "undefined"
             THEN [st |-> "error", error |-> "Tag does not have a type"]
             ELSE IF tag.st = "undefined"
             THEN [st |-> "error", error |-> "Tag does not have a tag"]
             ELSE IF taggerLine.st = "undefined"
             THEN [st |-> "error", error |-> "Tag does not have a tagger"]
             ELSE IF parseUserDateLine(taggerLine.line).st # "ok"
             THEN parseUserDateLine(taggerLine.line)
             ELSE [st |-> "ok", sha |-> tagObj.sha, object |-> object.value,
                   type |-> type.value, tag |-> tag.value,
                   tagger |-> parseUserDateLine(taggerLine.line), message |-> MessageOf(lines)]

-----------------------------------------------------------------------------
(* SpecParse: parseCommit and parseTag on commit and tag objects whose payload has some
   of the header lines, a blank line and a message *)

EmptyTreeId == StringOfSha(OidOf(Obj("tree", <<>>)))

\* the id of the second parent of a merge commit
SecondParentId == StringOfSha(OidOf(Obj("commit", <<>>)))

\* the header lines of a commit and of a tag, by their names, in the order git writes them;
\* "parent2" is the second parent line of a merge commit
CommitHeaders == <<"tree", "parent", "parent2", "author", "committer">>

TagHeaders == <<"object", "type", "tag", "tagger">>

HeaderLine(name) ==
    CASE name = "tree"      -> <<116, 114, 101, 101, 32>> \o EmptyTreeId
      [] name = "parent"    -> <<112, 97, 114, 101, 110, 116, 32>> \o EmptyTreeId
      [] name = "parent2"   -> <<112, 97, 114, 101, 110, 116, 32>> \o SecondParentId
      [] name = "author"    -> <<97, 117, 116, 104, 111, 114, 32, 65, 32, 85, 32, 84, 104, 111, 114, 32, 60, 97, 64, 120, 62, 32, 49, 32, 43, 48, 48, 48, 48>>
      [] name = "committer" -> <<99, 111, 109, 109, 105, 116, 116, 101, 114, 32, 67, 32, 60, 99, 64, 120, 62, 32, 50, 32, 43, 48, 48, 48, 48>>
      [] name = "object"    -> <<111, 98, 106, 101, 99, 116, 32>> \o EmptyTreeId
      [] name = "type"      -> <<116, 121, 112, 101, 32, 116, 114, 101, 101>>
      [] name = "tag"       -> <<116, 97, 103, 32, 118, 49>>
      [] name = "tagger"    -> <<116, 97, 103, 103, 101, 114, 32, 84, 32, 60, 116, 64, 120, 62, 32, 51, 32, 43, 48, 48, 48, 48>>

\* messages: some have a line that begins like a header line
CommitMessages ==
    { <<102, 105, 120>>, <<116, 114, 101, 101, 32, 119, 97, 108, 107, 32, 102, 105, 120, 101, 100>>, <<97, 117, 116, 104, 111, 114, 32, 110, 97, 109, 101, 32, 60, 110, 64, 120, 62, 32, 52, 32, 43, 48, 48, 48, 48>>, <<99, 111, 109, 109, 105, 116, 116, 101, 114, 32, 99, 32, 60, 99, 64, 120, 62, 32, 53, 32, 43, 48, 48, 48, 48>>,
      <<112, 97, 114, 101, 110, 116, 32, 99, 111, 109, 109, 105, 116, 32, 114, 101, 118, 101, 114, 116, 101, 100>>, <<108, 105, 110, 101, 32, 111, 110, 101, 10, 10, 112, 97, 114, 101, 110, 116>> }

TagMessages ==
    { <<114, 101, 108, 101, 97, 115, 101>>, <<111, 98, 106, 101, 99, 116, 32, 109, 111, 100, 101, 108>>, <<116, 121, 112, 101, 32, 111, 102, 32, 114, 101, 108, 101, 97, 115, 101>>, <<116, 97, 103, 32, 109, 111, 118, 101, 100>>, <<116, 97, 103, 103, 101, 114, 32, 116, 32, 60, 116, 64, 120, 62, 32, 54, 32, 43, 48, 48, 48, 48>> }

\* the header lines of `names` that are in `has`, each with its line feed
RECURSIVE HeaderSection(_, _)
HeaderSection(names, has) ==
    IF names = <<>> THEN <<>>
    ELSE (IF names[1] \in has THEN HeaderLine(names[1]) \o <<10>> ELSE <<>>)
            \o HeaderSection(Tail(names), has)

\* the payload: the header section, a blank line, the message
Payload(names, has, message) == HeaderSection(names, has) \o <<10>> \o message \o <<10>>

\* the object as getObject returns it
GitObject(type, payload) ==
    [st |-> "ok", sha |-> OidOf(Obj(type, payload)),
     header |-> TypeName(type) \o <<32>> \o Decimal(Len(payload)) \o <<0>>,
     content |-> payload, type |-> TypeName(type), from |-> "loose"]

ParseInputs ==
    [kind : {"commit"}, has : SUBSET {"tree", "parent", "parent2", "author", "committer"},
     message : CommitMessages]
        \cup [kind : {"tag"}, has : SUBSET {"object", "type", "tag", "tagger"},
              message : TagMessages]

ParseInit ==
    /\ \E in \in ParseInputs :
          args = [op |-> "none", kind |-> in.kind, has |-> in.has, message |-> in.message,
                  obj |-> GitObject(in.kind,
                             Payload(IF in.kind = "commit" THEN CommitHeaders ELSE TagHeaders,
                                     in.has, in.message))]
    /\ files = <<>>
    /\ packs = <<>>
    /\ dirs = {}
    /\ res = [parse |-> NoRes]
    /\ hist = {}
    /\ pc = "start"
    /\ bs = NoSearch

ParseCommit ==
    /\ pc = "start"
    /\ args' = [args EXCEPT !.op = "parseCommit"]
    /\ res' = [res EXCEPT !.parse = parseCommit(args.obj)]
    /\ pc' = "done"
    /\ UNCHANGED <<dirs, files, packs, hist, bs>>

ParseTag ==
    /\ pc = "start"
    /\ args' = [args EXCEPT !.op = "parseTag"]
    /\ res' = [res EXCEPT !.parse = parseTag(args.obj)]
    /\ pc' = "done"
    /\ UNCHANGED <<dirs, files, packs, hist, bs>>

ParseNext == ParseCommit \/ ParseTag

SpecParse == ParseInit /\ [][ParseNext]_vars

\* C19: parseCommit fails whenever the header section of the payload (the lines before
\* the first blank line) has no tree, no author or no committer line, and parseTag fails
\* whenever it has no object, no type, no tag or no tagger line
C19_RequiredHeaders ==
    pc = "done" =>
        /\ (args.op = "parseCommit" /\ ~({"tree", "author", "committer"} \subseteq args.has))
              => res.parse.st = "error"
        /\ (args.op = "parseTag" /\ ~({"object", "type", "tag", "tagger"} \subseteq args.has))
              => res.parse.st = "error"

-----------------------------------------------------------------------------
(* fs-helpers.ts: findGitFolder.  Paths are POSIX paths; `ds` is the set of the
   directories of the file system and `fs` its files *)

\* path.join(dir, name) for a normalized absolute dir and a plain name
pathJoin(dir, name) == IF dir = <<47>> THEN dir \o name ELSE dir \o <<47>> \o name

\* path.dirname(p) for a normalized absolute path
pathDirname(p) ==
    LET slashes == {i \in 1..Len(p) : p[i] = 47}
        last    == CHOOSE i \in slashes : \A j \in slashes : j <= i
    IN  IF last = 1 THEN <<47>> ELSE SubSeq(p, 1, last - 1)

\* (await stat(p)).isDirectory(); stat of a path that does not exist throws
statIsDirectory(ds, fs, p) ==
    IF p \in ds THEN [st |-> "ok", isDirectory |-> TRUE]
    ELSE IF \E q \in DOMAIN fs : pathJoin(q.dir, q.name) = p THEN [st |-> "ok", isDirectory |-> FALSE]
    ELSE [st |-> "error", error |-> "ENOENT"]

\* the loop of findGitFolder from currentPath on
RECURSIVE findGitFolderFrom(_, _, _)
findGitFolderFrom(ds, fs, currentPath) ==
    IF ~(currentPath # <<47>>) THEN [st |-> "undefined"]
    ELSE LET gitFolderPath == pathJoin(currentPath, <<46, 103, 105, 116>>)
             stats         == statIsDirectory(ds, fs, gitFolderPath)
         IN  IF stats.st = "ok" /\ stats.isDirectory
             THEN [st |-> "ok", value |-> gitFolderPath]
             ELSE findGitFolderFrom(ds, fs, pathDirname(currentPath))

\* findGitFolder with process.cwd() = cwd
findGitFolder(ds, fs, cwd) == findGitFolderFrom(ds, fs, cwd)

-----------------------------------------------------------------------------
(* SpecFind: findGitFolder in a chain of directories /, /a, /a/b, ... each of which has
   no .git, a .git directory, or a .git file (as a linked worktree has) *)

MaxDepth == 3

\* the directory of depth n: /, /a, /a/b, ...
RECURSIVE DirAt(_)
DirAt(n) == IF n = 0 THEN <<47>> ELSE pathJoin(DirAt(n - 1), <<96 + n>>)

GitFileContent == <<103, 105, 116, 100, 105, 114, 58, 32, 47, 120>> \o <<10>>

FindInit ==
    /\ \E git \in [0..MaxDepth -> {"none", "directory", "file"}], depth \in 0..MaxDepth :
          /\ dirs = {DirAt(n) : n \in 0..MaxDepth}
                       \cup {pathJoin(DirAt(n), <<46, 103, 105, 116>>) : n \in {k \in 0..MaxDepth : git[k] = "directory"}}
          /\ files = [q \in {[dir |-> DirAt(n), name |-> <<46, 103, 105, 116>>] : n \in {k \in 0..MaxDepth : git[k] = "file"}}
                        |-> GitFileContent]
          /\ args = [op |-> "none", cwd |-> DirAt(depth), depth |-> depth, git |-> git]
    /\ packs = <<>>
    /\ res = [find |-> NoRes]
    /\ hist = {}
    /\ pc = "start"
    /\ bs = NoSearch

FindGitFolder ==
    /\ pc = "start"
    /\ args' = [args EXCEPT !.op = "findGitFolder"]
    /\ res' = [res EXCEPT !.find = findGitFolder(dirs, files, args.cwd)]
    /\ pc' = "done"
    /\ UNCHANGED <<dirs, files, packs, hist, bs>>

FindNext == FindGitFolder

SpecFind == FindInit /\ [][FindNext]_vars

\* the depths, from the working directory up to the root, of the directories that have
\* .git as a directory
GitDirDepths == {n \in 0..args.depth : args.git[n] = "directory"}

\* C20: findGitFolder returns the path of the .git directory of the nearest directory,
\* on the chain from the working directory up to and including the root, that has .git
\* as a directory (a .git that is not a directory is passed over), and undefined only
\* when no directory of the chain has one
C20_NearestGitDirectory ==
    pc = "done" =>
        IF GitDirDepths = {} THEN res.find = [st |-> "undefined"]
        ELSE res.find = [st |-> "ok",
                         value |-> pathJoin(DirAt(CHOOSE n \in GitDirDepths :
                                                      \A k \in GitDirDepths : k <= n), <<46, 103, 105, 116>>)]

-----------------------------------------------------------------------------
(* SpecWalk: the loop of findGitFolder, one iteration a step, on the two platforms the
   package is built for (pkg.targets: linux and win).  On win the paths are those of
   path.win32: the root is a drive root and the separator is the backslash *)

Platforms == {"posix", "win32"}

pathSep(platform) == IF platform = "posix" THEN 47 ELSE 92

\* the root of the file system the process runs in: / or C:\
pathRoot(platform) == IF platform = "posix" THEN <<47>> ELSE <<67, 58, 92>>

\* path.join(dir, name) for a normalized absolute dir and a plain name
pathJoinOn(platform, dir, name) ==
    IF dir[Len(dir)] = pathSep(platform) THEN dir \o name
    ELSE dir \o <<pathSep(platform)>> \o name

\* path.dirname(p) for a normalized absolute path: the root is its own parent
pathDirnameOn(platform, p) ==
    LET seps == {i \in (Len(pathRoot(platform)) + 1)..Len(p) : p[i] = pathSep(platform)}
    IN  IF seps = {} THEN pathRoot(platform)
        ELSE SubSeq(p, 1, (CHOOSE i \in seps : \A j \in seps : j <= i) - 1)

\* (await stat(p)).isDirectory(); stat of a path that does not exist throws
statIsDirectoryOn(platform, ds, fs, p) ==
    IF p \in ds THEN [st |-> "ok", isDirectory |-> TRUE]
    ELSE IF \E q \in DOMAIN fs : pathJoinOn(platform, q.dir, q.name) = p
    THEN [st |-> "ok", isDirectory |-> FALSE]
    ELSE [st |-> "error", error |-> "ENOENT"]

\* the directory of depth n on a platform
RECURSIVE DirOn(_, _)
DirOn(platform, n) ==
    IF n = 0 THEN pathRoot(platform) ELSE pathJoinOn(platform, DirOn(platform, n - 1), <<96 + n>>)

WalkInit ==
    /\ \E platform \in Platforms, git \in [0..MaxDepth -> {"none", "directory", "file"}],
          depth \in 0..MaxDepth :
          /\ dirs = {DirOn(platform, n) : n \in 0..MaxDepth}
                       \cup {pathJoinOn(platform, DirOn(platform, n), <<46, 103, 105, 116>>) :
                                n \in {k \in 0..MaxDepth : git[k] = "directory"}}
          /\ files = [q \in {[dir |-> DirOn(platform, n), name |-> <<46, 103, 105, 116>>] :
                                n \in {k \in 0..MaxDepth : git[k] = "file"}}
                        |-> GitFileContent]
          /\ args = [op |-> "findGitFolder", platform |-> platform,
                     cwd |-> DirOn(platform, depth), depth |-> depth, git |-> git]
    /\ packs = <<>>
    /\ res = [find |-> NoRes]
    /\ hist = {}
    /\ pc = "start"
    /\ bs = [currentPath |-> <<>>]

\* let currentPath = process.cwd()
WalkStart ==
    /\ pc = "start"
    /\ bs' = [currentPath |-> args.cwd]
    /\ pc' = "loop"
    /\ UNCHANGED <<dirs, files, packs, args, res, hist>>

\* one iteration of `while (currentPath !== '/')`
WalkStep ==
    /\ pc = "loop"
    /\ bs.currentPath # <<47>>
    /\ LET gitFolderPath == pathJoinOn(args.platform, bs.currentPath, <<46, 103, 105, 116>>)
           stats         == statIsDirectoryOn(args.platform, dirs, files, gitFolderPath)
       IN  IF stats.st = "ok" /\ stats.isDirectory
           THEN /\ res' = [res EXCEPT !.find = [st |-> "ok", value |-> gitFolderPath]]
                /\ pc' = "done"
                /\ UNCHANGED bs
           ELSE /\ bs' = [currentPath |-> pathDirnameOn(args.platform, bs.currentPath)]
                /\ UNCHANGED <<res, pc>>
    /\ UNCHANGED <<dirs, files, packs, args, hist>>

\* the loop is left: return undefined
WalkReturn ==
    /\ pc = "loop"
    /\ ~(bs.currentPath # <<47>>)
    /\ res' = [res EXCEPT !.find = [st |-> "undefined"]]
    /\ pc' = "done"
    /\ UNCHANGED <<dirs, files, packs, args, hist, bs>>

WalkNext == WalkStart \/ WalkStep \/ WalkReturn

SpecWalk == WalkInit /\ [][WalkNext]_vars

\* the call runs on: no step of it that is possible is put off for ever
SpecWalkFair == SpecWalk /\ WF_vars(WalkNext)

\* C21: findGitFolder terminates for every starting directory, also when no directory
\* of the chain has a .git directory, and whether the root is / or a drive root that is
\* its own parent
C21_WalkTerminates == <>(pc = "done")

-----------------------------------------------------------------------------
(* SpecIndex: the flags of the entries *)

\* C22: for the 16-bit flags word of every index entry, the parsed entry has
\* assumeValidFlag equal to bit 15, stage equal to the number in bits 12..13 (0..3),
\* and a name as long as the low 12 bits say
C22_FlagFields ==
    (pc = "done" /\ res.index.st = "ok") =>
        \A k \in 1..Len(args.entries) :
            LET flags == EntryFlags(args.entries[k], args.version)
                entry == res.index.entries[k]
            IN  /\ entry.assumeValidFlag = ((flags \div 32768) % 2 = 1)
                /\ entry.stage = (flags \div 4096) % 4
                /\ (flags % 4096 < 4095) => ByteLength(entry.name) = flags % 4096

-----------------------------------------------------------------------------
(* SpecExtensions: parseIndexFile with the loop over the extensions taken one iteration
   a step, on index files with up to MaxExtensions extensions after their entries *)

MaxExtensions == 2

ExtensionKinds == {"unknown", "tree", "treeSubInvalid", "treeRootInvalid", "treeNoLineFeed"}

RECURSIVE ExtensionsBytes(_, _)
ExtensionsBytes(exts, n) ==
    IF exts = <<>> THEN <<>>
    ELSE ExtensionBytes(exts[1], n) \o ExtensionsBytes(Tail(exts), n)

\* the index file of version 2 or 3 with these entries and extensions
IndexFileOf(version, ds, exts) ==
    LET body == <<68, 73, 82, 67>> \o UInt32BE(version) \o UInt32BE(Len(ds))
                    \o IndexEntriesBytes(ds, version) \o ExtensionsBytes(exts, Len(ds))
    IN  body \o DigestBytes(body)

\* no entry, the entry a, the entry bb, both
ShortEntryLists == {<<>>, <<EntryPool[1]>>, <<EntryPool[2]>>, <<EntryPool[1], EntryPool[2]>>}

\* what one iteration reads: the signature and the length of the extension at
\* extensionStart, and for TREE what parseTreeExtensionData makes of its data
ExtensionAt(buf, extensionStart) ==
    LET extensionSignature == BufferToString(Subarray(buf, extensionStart, extensionStart + 4))
        extensionLength    == readUInt32BE(buf, extensionStart + 4)
    IN  [extensionSignature |-> extensionSignature,
         extensionLength |-> extensionLength,
         tree |-> IF extensionSignature = <<84, 82, 69, 69>>
                  THEN parseTreeExtensionData(Subarray(buf, extensionStart + 8,
                                                       extensionStart + 8 + extensionLength))
                  ELSE [st |-> "undefined"]]

\* the offsets at which the loop over the extensions stands when it starts at p
RECURSIVE ExtensionStarts(_, _)
ExtensionStarts(buf, p) ==
    IF ~(p < Len(buf) - 20) THEN {}
    ELSE {p} \cup ExtensionStarts(buf, p + 8 + readUInt32BE(buf, p + 4))

\* what the call reads of the file, which does not change while it runs: the outcome
\* of the loop over the entries, and for every offset at which the loop over the
\* extensions stands what an iteration reads there
IndexReads(buf) ==
    LET e == parseIndexEntries(buf, readUInt32BE(buf, 4), readUInt32BE(buf, 8), 12, <<>>, <<>>)
    IN  [entries |-> e,
         at |-> [extensionStart \in (IF e.st = "ok" THEN ExtensionStarts(buf, e.entryStart) ELSE {})
                    |-> ExtensionAt(buf, extensionStart)]]

ExtensionsInit ==
    /\ \E version \in {2, 3}, ds \in ShortEntryLists,
          exts \in UNION {[1..n -> ExtensionKinds] : n \in 0..MaxExtensions} :
          /\ args = [op |-> "none", version |-> version, entries |-> ds, exts |-> exts]
          /\ files = [q \in {indexPath} |-> IndexFileOf(version, ds, exts)]
    /\ hist = IndexReads(files[indexPath])
    /\ packs = <<>>
    /\ dirs = {}
    /\ res = [index |-> NoRes]
    /\ pc = "start"
    /\ bs = [extensionStart |-> 0, treeExtension |-> [st |-> "undefined"], warned |-> <<>>,
             entries |-> <<>>]

\* header, version and the loop over the entries; then `let extensionStart = entryStart`
ParseEntries ==
    /\ pc = "start"
    /\ args' = [args EXCEPT !.op = "parseIndexFile"]
    /\ IF hist.entries.st # "ok"
       THEN res' = [res EXCEPT !.index = hist.entries] /\ pc' = "done" /\ UNCHANGED bs
       ELSE /\ bs' = [bs EXCEPT !.extensionStart = hist.entries.entryStart,
                                !.entries = hist.entries.entries]
            /\ pc' = "extensions"
            /\ UNCHANGED res
    /\ UNCHANGED <<dirs, files, packs, hist>>

\* one iteration of `while (extensionStart < buf.length - 20)`; a call of
\* parseTreeExtensionData that loops for ever is never left
ExtensionStep ==
    /\ pc = "extensions"
    /\ bs.extensionStart < Len(files[indexPath]) - 20
    /\ LET x == hist.at[bs.extensionStart]
       IN  IF x.extensionSignature = <<84, 82, 69, 69>>
           THEN IF x.tree.st = "hang"
                THEN pc' = "parseTreeExtensionData" /\ UNCHANGED <<bs, res>>
                ELSE IF x.tree.st = "error"
                THEN res' = [res EXCEPT !.index = x.tree] /\ pc' = "done" /\ UNCHANGED bs
                ELSE /\ bs' = [bs EXCEPT !.treeExtension = [st |-> "ok", entry |-> x.tree.entry],
                                         !.extensionStart = @ + 8 + x.extensionLength]
                     /\ UNCHANGED <<res, pc>>
           ELSE /\ bs' = [bs EXCEPT !.warned = Append(@, x.extensionSignature),
                                    !.extensionStart = @ + 8 + x.extensionLength]
                /\ UNCHANGED <<res, pc>>
    /\ UNCHANGED <<dirs, files, packs, args, hist>>

\* the loop is left: return { entries, treeExtension }
ExtensionsReturn ==
    /\ pc = "extensions"
    /\ ~(bs.extensionStart < Len(files[indexPath]) - 20)
    /\ res' = [res EXCEPT !.index = [st |-> "ok", entries |-> bs.entries,
                                     treeExtension |-> bs.treeExtension]]
    /\ pc' = "done"
    /\ UNCHANGED <<dirs, files, packs, args, hist, bs>>

ExtensionsNext == ParseEntries \/ ExtensionStep \/ ExtensionsReturn

SpecExtensions == ExtensionsInit /\ [][ExtensionsNext]_vars

\* the call runs on: no step of it that is possible is put off for ever
SpecExtensionsFair == SpecExtensions /\ WF_vars(ExtensionsNext)

\* C23: after the entries, the parsing of the extensions terminates for every index
\* file: the call of parseIndexFile comes to its end, by returning or by throwing
C23_ExtensionsTerminate == <>(args.op = "parseIndexFile" /\ pc = "done")

\* C24: a TREE extension whose cache tree has invalidated entries (entry count -1),
\* the root entry included, is parsed without error: the invalidated entries are
\* skipped and the N entries of the index are returned
C24_InvalidatedSkipped ==
    (pc = "done" /\ \A i \in 1..Len(args.exts) :
                        args.exts[i] \in {"unknown", "tree", "treeSubInvalid", "treeRootInvalid"}) =>
        /\ res.index.st = "ok"
        /\ Len(res.index.entries) = Len(args.entries)
        /\ \A k \in 1..Len(args.entries) :
              res.index.entries[k].name = BufferToString(EntryName(args.entries[k]))

-----------------------------------------------------------------------------
(* SpecTree: parseTree on tree objects whose payload is a concatenation of entries
   "<mode> <name>\0<20-byte id>", the ids having any bytes *)

MaxTreeEntries == 2

\* an entry of a payload: the mode as a number, the name, the 20 bytes of the id
RawEntry(mode, name, id) == [mode |-> mode, name |-> name, id |-> id]

\* ids made of one byte, and one that has a NUL, a space and a line feed among others
IdOf(b) == [i \in 1..sha1Length |-> b]

MixedId == [i \in 1..sha1Length |-> CASE i % 4 = 0 -> 0 [] i % 4 = 1 -> 32 [] i % 4 = 2 -> 10 [] OTHER -> 171]

\* files, a directory, a link, a gitlink; the names a, "b c" (with a space) and others
RawEntries ==
    { RawEntry(100644, <<97>>, IdOf(171)),
      RawEntry(100644, <<98, 32, 99>>, IdOf(32)),
      RawEntry(100755, <<100>>, IdOf(0)),
      RawEntry(40000, <<101>>, IdOf(10)),
      RawEntry(40000, <<102, 32>>, MixedId),
      RawEntry(120000, <<103>>, MixedId),
      RawEntry(160000, <<104, 10, 105>>, IdOf(49)),
      RawEntry(100644, <<106>>, IdOf(255)) }

RECURSIVE RawPayload(_)
RawPayload(es) ==
    IF es = <<>> THEN <<>>
    ELSE Decimal(es[1].mode) \o <<32>> \o es[1].name \o <<0>> \o es[1].id \o RawPayload(Tail(es))

TreeInit ==
    /\ \E es \in UNION {[1..k -> RawEntries] : k \in 0..MaxTreeEntries} :
          args = [op |-> "none", entries |-> es, obj |-> GitObject("tree", RawPayload(es))]
    /\ files = <<>>
    /\ packs = <<>>
    /\ dirs = {}
    /\ res = [tree |-> NoRes]
    /\ hist = {}
    /\ pc = "start"
    /\ bs = NoSearch

ParseTree ==
    /\ pc = "start"
    /\ args' = [args EXCEPT !.op = "parseTree"]
    /\ res' = [res EXCEPT !.tree = parseTree(args.obj)]
    /\ pc' = "done"
    /\ UNCHANGED <<dirs, files, packs, hist, bs>>

TreeNext == ParseTree

SpecTree == TreeInit /\ [][TreeNext]_vars

\* C25: for a payload that is a concatenation of k entries "<mode> <name>\0<20 bytes>",
\* parseTree returns k entries in the order of the payload, each with the mode digits
\* read as a number, the name between the first space and the next NUL, and the hex
\* digits of the 20 bytes after it, whatever bytes the ids have
C25_TreeEntries ==
    pc = "done" =>
        /\ res.tree.st = "ok"
        /\ Len(res.tree.entries) = Len(args.entries)
        /\ \A i \in 1..Len(args.entries) :
              /\ res.tree.entries[i].mode = [nan |-> FALSE, value |-> args.entries[i].mode]
              /\ res.tree.entries[i].name = BufferToString(args.entries[i].name)
              /\ res.tree.entries[i].sha = Hex(args.entries[i].id)

\* two entries, the id of the first with NUL, space and line feed, its name with a space
C25_Witness ==
    /\ pc = "done"
    /\ Len(args.entries) = 2
    /\ args.entries[1] = RawEntry(40000, <<102, 32>>, MixedId)
    /\ res.tree.st = "ok"
    /\ Len(res.tree.entries) = 2
    /\ res.tree.entries[1].name = <<102, 32>>
    /\ res.tree.entries[2].sha = Hex(args.entries[2].id)

-----------------------------------------------------------------------------
(* SpecBoth: getObject for an object that is stored loose and in a pack: the call is
   served by the loose file while that exists, and by the pack once the loose file has
   been pruned *)

\* payloads of 1 byte and of 16 and more bytes
BothPayloads == {[i \in 1..n |-> b] : n \in {1, 16, 17, 16 + MaxLen}, b \in {97, 98}}

BothInit ==
    /\ \E type \in gitObjectTypes, payload \in BothPayloads, alone \in BOOLEAN :
          /\ args = [op |-> "none", obj |-> Obj(type, payload)]
          /\ files = LooseFiles({Obj(type, payload)})
          /\ packs = <<GitPack(IF alone THEN <<Obj(type, payload)>>
                               ELSE <<Obj("blob", <<120, 97, 97>>), Obj(type, payload)>>)>>
    /\ dirs = {objectDir(OidOf(args.obj)).dir}
    /\ res = [loose |-> NoRes, pack |-> NoRes]
    /\ hist = {}
    /\ pc = "start"
    /\ bs = NoSearch

\* a call of getObject with the id of the object; the result is kept by the storage
\* that there is to serve it
BothGet ==
    /\ IF objectPath(OidOf(args.obj)) \in DOMAIN files THEN res.loose = NoRes ELSE res.pack = NoRes
    /\ args' = [args EXCEPT !.op = "getObject"]
    /\ res' = IF objectPath(OidOf(args.obj)) \in DOMAIN files
              THEN [res EXCEPT !.loose = getObject(files, packs, OidOf(args.obj))]
              ELSE [res EXCEPT !.pack = getObject(files, packs, OidOf(args.obj))]
    /\ UNCHANGED <<dirs, files, packs, hist, pc, bs>>

\* the loose file of the packed object is removed, as `git prune-packed` does
PrunePacked ==
    /\ pc = "start"
    /\ files' = [q \in DOMAIN files \ {objectPath(OidOf(args.obj))} |-> files[q]]
    /\ args' = [args EXCEPT !.op = "prune"]
    /\ pc' = "pruned"
    /\ UNCHANGED <<dirs, packs, res, hist, bs>>

BothNext == BothGet \/ PrunePacked

SpecBoth == BothInit /\ [][BothNext]_vars

\* C26: for an object stored loose and in a pack, getObject returns the same type, the
\* same payload and the same header string whichever storage serves it, the header
\* being "<kind> <length>" with the length of the payload and no NUL after it
C26_SameFromBothStorages ==
    (res.loose # NoRes /\ res.pack # NoRes) =>
        /\ res.loose.st = "ok" /\ res.pack.st = "ok"
        /\ res.loose.from = "loose" /\ res.pack.from = "pack"
        /\ res.loose.type = res.pack.type
        /\ res.loose.content = res.pack.content
        /\ res.loose.header = res.pack.header
        /\ res.loose.header = TypeName(args.obj.type) \o <<32>> \o Decimal(Len(args.obj.payload))

-----------------------------------------------------------------------------
(* SpecIgnore: calls of getGitIgnoreParser on one GitRepo instance, each suspended at
   its awaits: bs holds the fields config and gitignore of the instance and the
   GitIgnoreParser objects constructed so far, pc the position of every call *)

MaxCalls == 3

\* the awaits of one init(): a readdir for every directory, a readFile for every
\* .gitignore file, the readdir of the repository root being the first
MaxReads == 2

Calls == 1..MaxCalls

undefined == 0

IgnoreInit ==
    /\ \E ignorecase \in BOOLEAN, reads \in 1..MaxReads :
          args = [op |-> "getGitIgnoreParser", ignorecase |-> ignorecase, reads |-> reads]
    /\ bs = [config |-> [st |-> "undefined"], gitignore |-> undefined, parsers |-> <<>>]
    /\ pc = [c \in Calls |-> "idle"]
    /\ res = [c \in Calls |-> NoRes]
    /\ dirs = {}
    /\ files = <<>>
    /\ packs = <<>>
    /\ hist = {}

\* the value a call returns: this.gitignore as it is when `return this.gitignore` runs
Returned(c) ==
    [st |-> "ok", gitignore |-> bs.gitignore, initialized |-> bs.parsers[bs.gitignore].initialized]

\* a call of getGitIgnoreParser up to its first await: the test of this.gitignore, then
\* getConfig up to its await (of readMergedGitConfig, or of nothing when config is set)
GetGitIgnoreParser ==
    \E c \in Calls :
        /\ pc[c] = "idle"
        /\ IF bs.gitignore # undefined
           THEN /\ res' = [res EXCEPT ![c] = Returned(c)]
                /\ pc' = [pc EXCEPT ![c] = "done"]
           ELSE /\ pc' = [pc EXCEPT ![c] = IF bs.config.st = "undefined"
                                           THEN "readMergedGitConfig" ELSE "getConfig"]
                /\ UNCHANGED res
        /\ UNCHANGED <<dirs, files, packs, args, hist, bs>>

\* getConfig resumes after readMergedGitConfig: this.config is assigned
GetConfig ==
    \E c \in Calls :
        /\ pc[c] = "readMergedGitConfig"
        /\ bs' = [bs EXCEPT !.config = [st |-> "ok", ignorecase |-> args.ignorecase]]
        /\ pc' = [pc EXCEPT ![c] = "getConfig"]
        /\ UNCHANGED <<dirs, files, packs, args, res, hist>>

\* getGitIgnoreParser resumes after getConfig: a GitIgnoreParser is constructed and
\* assigned to this.gitignore, and its init() runs up to its first await
NewGitIgnoreParser ==
    \E c \in Calls :
        /\ pc[c] = "getConfig"
        /\ bs' = [bs EXCEPT !.gitignore = Len(bs.parsers) + 1,
                            !.parsers = Append(@, [ignoreCase |-> bs.config.ignorecase,
                                                   by |-> c, reads |-> args.reads,
                                                   initialized |-> FALSE])]
        /\ pc' = [pc EXCEPT ![c] = "init"]
        /\ UNCHANGED <<dirs, files, packs, args, res, hist>>

\* one await of init() completes; after the last one init() returns
InitRead ==
    \E g \in DOMAIN bs.parsers :
        /\ ~bs.parsers[g].initialized
        /\ bs' = [bs EXCEPT !.parsers[g] = [@ EXCEPT !.reads = @ - 1,
                                                     !.initialized = (bs.parsers[g].reads = 1)]]
        /\ UNCHANGED <<dirs, files, packs, args, res, hist, pc>>

\* getGitIgnoreParser resumes after the init() it started and returns this.gitignore
ReturnGitIgnore ==
    \E c \in Calls :
        /\ pc[c] = "init"
        /\ \E g \in DOMAIN bs.parsers : bs.parsers[g].by = c /\ bs.parsers[g].initialized
        /\ res' = [res EXCEPT ![c] = Returned(c)]
        /\ pc' = [pc EXCEPT ![c] = "done"]
        /\ UNCHANGED <<dirs, files, packs, args, hist, bs>>

IgnoreNext ==
    \/ GetGitIgnoreParser
    \/ GetConfig
    \/ NewGitIgnoreParser
    \/ InitRead
    \/ ReturnGitIgnore

SpecIgnore == IgnoreInit /\ [][IgnoreNext]_vars

\* C27: whatever the interleaving of the calls of getGitIgnoreParser on one instance,
\* every call returns a matcher whose init() has completed, and at most one matcher is
\* constructed and initialized for the instance
C27_OneInitializedMatcher ==
    /\ \A c \in Calls : res[c] # NoRes => res[c].initialized
    /\ Len(bs.parsers) <= 1

-----------------------------------------------------------------------------
(* SpecLog: the loop of logCommand on a commit graph. args.graph gives for every commit
   what repo.getCommit returns of it, its parents and the time of its author date;
   bs.commits is the array `commits`, hist the sequence of the commits printed *)

MaxCommits == 4

\* the parent lists of commit n: no parent, one, or two different ones, all older commits
ParentLists(n) ==
    {<<>>} \cup {<<a>> : a \in 1..(n - 1)}
           \cup {<<p[1], p[2]>> : p \in {q \in (1..(n - 1)) \X (1..(n - 1)) : q[1] # q[2]}}

CommitGraphs ==
    {[n \in 1..MaxCommits |-> [sha |-> n, parents |-> parents[n], date |-> IF dated THEN n ELSE 0]] :
        parents \in {f \in [1..MaxCommits -> UNION {ParentLists(n) : n \in 1..MaxCommits}] :
                        \A n \in 1..MaxCommits : f[n] \in ParentLists(n)},
        dated \in BOOLEAN}

\* commits.sort((a, b) => a.author.date.getTime() - b.author.date.getTime()): a stable
\* sort, the commits of the array inserted one after the other
RECURSIVE SortByDate(_, _, _)
SortByDate(graph, commits, sorted) ==
    IF commits = <<>> THEN sorted
    ELSE LET c == Head(commits)
             before == SelectSeq(sorted, LAMBDA x : graph[x].date <= graph[c].date)
             after == SelectSeq(sorted, LAMBDA x : graph[x].date > graph[c].date)
         IN  SortByDate(graph, Tail(commits), before \o <<c>> \o after)

LogInit ==
    /\ \E graph \in CommitGraphs :
          args = [op |-> "log", graph |-> graph, head |-> MaxCommits]
    /\ bs = [commits |-> <<>>]
    /\ hist = <<>>
    /\ pc = "start"
    /\ res = [log |-> NoRes]
    /\ dirs = {}
    /\ files = <<>>
    /\ packs = <<>>

\* the commit of HEAD is pushed
LogHead ==
    /\ pc = "start"
    /\ bs' = [commits |-> <<args.head>>]
    /\ pc' = "loop"
    /\ UNCHANGED <<dirs, files, packs, args, res, hist>>

\* one iteration of the loop: the last commit is popped and printed, its parents are
\* pushed and the array is sorted
LogCommit ==
    /\ pc = "loop"
    /\ Len(bs.commits) > 0
    /\ LET commit == bs.commits[Len(bs.commits)]
           rest == SubSeq(bs.commits, 1, Len(bs.commits) - 1) \o args.graph[commit].parents
       IN  /\ hist' = Append(hist, args.graph[commit].sha)
           /\ bs' = [commits |-> IF Len(rest) > 0 THEN SortByDate(args.graph, rest, <<>>) ELSE rest]
    /\ UNCHANGED <<dirs, files, packs, args, res, pc>>

\* the array is empty: the loop and the command end
LogReturn ==
    /\ pc = "loop"
    /\ Len(bs.commits) = 0
    /\ pc' = "done"
    /\ res' = [log |-> [st |-> "ok", printed |-> hist]]
    /\ UNCHANGED <<dirs, files, packs, args, hist, bs>>

LogNext == LogHead \/ LogCommit \/ LogReturn

SpecLog == LogInit /\ [][LogNext]_vars

\* the commits reachable from the commits of `from` through parent links
RECURSIVE ReachableFrom(_, _)
ReachableFrom(graph, from) ==
    LET more == from \cup UNION {{graph[c].parents[i] : i \in DOMAIN graph[c].parents} : c \in from}
    IN  IF more = from THEN from ELSE ReachableFrom(graph, more)

Printed(sha) == Cardinality({i \in DOMAIN hist : hist[i] = sha})

\* C28: when the log command has ended, every commit reachable from HEAD through parent
\* links has been printed exactly once, and no other commit has been printed, also when
\* the history has merge commits whose parents share ancestors
C28_EveryCommitOnce ==
    pc = "done" =>
        /\ \A c \in ReachableFrom(args.graph, {args.head}) : Printed(args.graph[c].sha) = 1
        /\ \A i \in DOMAIN hist : hist[i] \in ReachableFrom(args.graph, {args.head})

-----------------------------------------------------------------------------
(* parseCommit under SpecParse: the fields of the commit returned *)

\* the ids of the parent lines of the header section, in their order
ParentIds ==
    (IF "parent" \in args.has THEN <<[st |-> "ok", value |-> EmptyTreeId]>> ELSE <<>>)
        \o (IF "parent2" \in args.has THEN <<[st |-> "ok", value |-> SecondParentId]>> ELSE <<>>)

\* C29: a commit that parseCommit returns has as parents the ids of the parent lines of
\* the header section, in order, and as message the text after the first blank line; its
\* tree, author and committer are those of the header lines: no line of the message
\* contributes to them, whatever it starts with
C29_FieldsFromHeaders ==
    (pc = "done" /\ args.op = "parseCommit" /\ args.kind = "commit" /\ res.parse.st = "ok") =>
        /\ res.parse.parents = ParentIds
        /\ res.parse.message = args.message \o <<10>>
        /\ res.parse.tree = EmptyTreeId
        /\ res.parse.author = parseUserDateLine(HeaderLine("author"))
        /\ res.parse.committer = parseUserDateLine(HeaderLine("committer"))

-----------------------------------------------------------------------------
(* SpecIndex: symbolic links and gitlinks, whose permission bits are 000 in the index
   files that git writes *)

\* an entry with the type nibble of a symbolic link or of a gitlink and no permission bit
LinkEntry(d) == d.nibble \in {10, 14} /\ d.perm = 0

\* C30: an index entry whose type nibble is symlink (1010) or gitlink (1110) and whose
\* permission bits are 000 is accepted by parseIndexFile and returned with the type
\* symlink or gitlink (index files of a supported version whose other entries are
\* supported and whose names are shorter than 0xFFF bytes)
C30_LinksAccepted ==
    (/\ pc = "done"
     /\ args.header = <<68, 73, 82, 67>> /\ args.version \in {2, 3}
     /\ \A k \in 1..Len(args.entries) :
           /\ SupportedEntry(args.entries[k]) \/ LinkEntry(args.entries[k])
           /\ args.entries[k].len < 4095
     /\ \E k \in 1..Len(args.entries) : LinkEntry(args.entries[k]))
        => /\ res.index.st = "ok"
           /\ Len(res.index.entries) = Len(args.entries)
           /\ \A k \in 1..Len(args.entries) :
                 LinkEntry(args.entries[k]) =>
                     res.index.entries[k].type
                         = (IF args.entries[k].nibble = 10 THEN "symlink" ELSE "gitlink")

====
